---- MODULE Spec2Model ----
(***************************************************************************)
(* Tambola game progression: the stored game record, the Supabase game     *)
(* service (src/src/services/supabase-game.ts), the host controls provider *)
(* (src/src/providers/HostControlsProvider.tsx) and the earlier GameHost   *)
(* component with its Firebase store (src/unnamed/part_001, part_002).     *)
(***************************************************************************)
EXTENDS Integers, Sequences, FiniteSets, TLC

\* ------------------------------------------------------------------ bounds
\* The numbers that can be called are 1..MaxNumber (90 in the source).
MaxNumber == 2
\* Seconds of countdown (10 in the source).
CountdownStart == 2
\* Storage or call failures injected in one run.
MaxFaults == 1
\* Service operations invoked by callers in one run.
MaxSvcCalls == 3
\* Calls one GameHost has under way at a time: awaiting their result or
\* waiting for the clear of the number they showed.
MaxInFlight == 2

Numbers == 1..MaxNumber
Clients == {"tabA", "tabB"}
NoNumber == 0

VARIABLES
  \* ---- the stored game row
  status,            \* games.status
  gs,                \* games.game_state
  session,           \* games.session_numbers
  endedAt,           \* games.ended_at is set
  prizes,            \* prizes rows of the game
  \* ---- history of the numbers the call primitive has committed
  committed,
  \* ---- HostControlsProvider instances, one per tab
  gameActiveRef, pauseRequestedRef, timerGenerationRef, isProcessing,
  thrown,            \* the host action whose promise was rejected last, per tab
  timers,            \* pending setTimeout handles of the call loops
  calls,             \* call ticks awaiting their result
  countdownTimerRef, \* the setInterval of startGame and its timeLeft
  view,              \* gameData as last delivered to the tab
  effectDue,         \* the sync effect has to run (pauseRequested changed)
  ops,               \* updateGameState calls in flight
  \* ---- the run: mounted tabs, the host actions still to come, fault budget
  mounted, script, faults,
  \* ---- callers of the Supabase game service
  svcOps,            \* service calls between their read and their write
  svcCalls,          \* service calls made so far
  \* ---- the GameHost component (one tab) over the Firebase store
  currentGame,       \* React state: the game state last delivered
  availableNumbers,  \* React state
  gameInterval,      \* React state: handle of the latest call interval
  intervals,         \* live setInterval call loops with their closures
  countdownInterval, \* the countdown interval with its closure
  ghCalls,           \* callNumberWithPrizeValidation calls in flight
  ghWrites,          \* set() writes of the game state in flight
  raceBase,          \* calledNumbers length when pause met the one tick in flight
  ghScript,          \* the buttons still to be pressed
  resetRun,          \* the resetGame under way: its stage and what it still has to do
  subscription,      \* user.isActive and subscriptionEndDate against the clock
  dashboard,         \* the last render showed the game controls
  lobby,             \* game creation and settings: the form, the stored games and
                     \* host settings, the step of the handler under way
  txn,               \* one safeTransactionUpdate call and the object at its path
  resume,            \* auto-resume at mount: the host's games, the one picked, the stage
  shuffle,           \* generateNumberSequence under way: the array and the loop index
  audio,             \* AudioManager: the props last rendered, its refs, what it announced
  auth,              \* useAuth: the hook's state and the lookups under way
  locks,             \* FirebaseCore.activeLocks and the callers of withGameLock
  toasts,            \* GameHost: announcedWinners, the callback's copy, the toasts shown
  speech,            \* AudioManager: the queue, the item being spoken, its callbacks
  tickets,           \* the tickets rows and the service calls on them in flight
  feed,              \* useSupabaseSubscription: filter, channel, data, loading
  ui                 \* GameHost: uiState, the cached winners, the game data shown

storeVars == <<status, gs, session, endedAt, prizes, committed>>
hcVars == <<gameActiveRef, pauseRequestedRef, timerGenerationRef, isProcessing, thrown,
            timers, calls, countdownTimerRef, view, effectDue, ops>>
svcVars == <<svcOps, svcCalls>>
ghVars == <<currentGame, availableNumbers, gameInterval, intervals, countdownInterval,
            ghCalls, ghWrites, raceBase, ghScript>>
playVars == <<toasts, speech, tickets, feed, ui>>
auxVars == <<shuffle, audio, auth, locks, playVars>>
hostVars == <<resetRun, subscription, dashboard, lobby, txn, resume, auxVars>>
fixedHC == <<mounted, svcVars, ghVars, hostVars>>
envVars == <<fixedHC, script>>
vars == <<storeVars, hcVars, envVars, faults>>

\* The filter of a hook that has no game id; the data before any rows came.
NoFilter == 0

\* gameData and cachedWinnerData when there is no game: null.
NoGameData == 0

\* player_name of a ticket nobody has booked.
NoPlayer == "nobody"

\* ------------------------------------------------------------ pure helpers
Range(s) == {s[i] : i \in 1..Len(s)}

IsPrefix(s, t) == Len(s) <= Len(t) /\ \A i \in 1..Len(s) : s[i] = t[i]

NoDuplicates(s) == \A i, j \in 1..Len(s) : s[i] = s[j] => i = j

\* { ...current, ...updates }
Merge(current, updates) ==
  [f \in DOMAIN current |-> IF f \in DOMAIN updates THEN updates[f] ELSE current[f]]

\* The game_state of a game that has just been created.
InitialGameState ==
  [isActive |-> FALSE, isCountdown |-> FALSE, countdownTime |-> 0,
   gameOver |-> FALSE, calledNumbers |-> <<>>, currentNumber |-> NoNumber]

PrizeIds == {"fullHouse"}
UnwonPrize == [won |-> FALSE, winners |-> {}, winningNumber |-> NoNumber]

\* ------------------------------------------------- the call primitive (RPC)
\* The update re-validates the phase before it appends.
Callable(st, g) == g.isActive /\ ~g.gameOver /\ st \notin {"paused", "finished"}

\* A draw that does not look at what has been called.
NextNumbersUnfiltered(sess, called) ==
  IF sess # <<>> THEN {sess[1]} ELSE Numbers

\* First element of the pre-shuffled sequence not yet called; any remaining
\* number when no sequence has been stored.
NextNumbers(sess, called) ==
  IF sess # <<>>
  THEN LET rest == {i \in 1..Len(sess) : sess[i] \notin Range(called)}
       IN IF rest = {} THEN {}
          ELSE {sess[CHOOSE i \in rest : \A j \in rest : i <= j]}
  ELSE Numbers \ Range(called)

\* call_next_number: one atomic update.  res is what the caller is told:
\* "ok" (a number was called, continue), "stop" (nothing called or game over).
CallNextNumber(res) ==
  IF ~Callable(status, gs)
  THEN /\ res = "stop"
       /\ UNCHANGED <<status, gs, endedAt, committed>>
  ELSE IF NextNumbers(session, gs.calledNumbers) = {}
  THEN /\ res = "stop"
       /\ gs' = [gs EXCEPT !.isActive = FALSE, !.gameOver = TRUE]
       /\ status' = "finished"
       /\ endedAt' = TRUE
       /\ UNCHANGED committed
  ELSE \E n \in NextNumbers(session, gs.calledNumbers) :
       /\ res = "ok"
       /\ gs' = [gs EXCEPT !.calledNumbers = Append(@, n), !.currentNumber = n]
       /\ committed' = Append(committed, n)
       /\ UNCHANGED <<status, endedAt>>

\* ------------------------------------------------- HostControlsProvider
\* A clearAllTimers that leaves the pending timeout in place.
ClearGameTimerKept(tm) == tm

\* clearTimeout(gameTimerRef.current): only the handle the ref holds.
ClearGameTimer(tm) == {t \in tm : ~t.ref}

\* A scheduleNextCall without its generation, active and pause checks.
ScheduleNextCallUnchecked(tm, gen, curGen, active, paused) ==
  {[t EXCEPT !.ref = FALSE] : t \in tm} \cup {[gen |-> gen, ref |-> TRUE]}

\* A scheduleNextCall that does not compare the generations.
ScheduleNextCallAnyGeneration(tm, gen, curGen, active, paused) ==
  IF ~active \/ paused
  THEN tm
  ELSE {[t EXCEPT !.ref = FALSE] : t \in tm} \cup {[gen |-> gen, ref |-> TRUE]}

\* scheduleNextCall of the loop started under generation gen.
ScheduleNextCall(tm, gen, curGen, active, paused) ==
  IF gen # curGen \/ ~active \/ paused
  THEN tm
  ELSE {[t EXCEPT !.ref = FALSE] : t \in tm} \cup {[gen |-> gen, ref |-> TRUE]}

\* The partial game state each caller of updateGameState passes.
Patch(op) ==
  CASE op.kind = "start"    -> [isCountdown |-> TRUE, countdownTime |-> CountdownStart,
                                isActive |-> FALSE]
    [] op.kind = "cd_tick"  -> [countdownTime |-> op.val]
    [] op.kind = "cd_final" -> [isActive |-> TRUE, isCountdown |-> FALSE, countdownTime |-> 0]
    [] op.kind = "pause"    -> [isActive |-> FALSE, isCountdown |-> FALSE]
    [] op.kind = "resume"   -> [isActive |-> TRUE, isCountdown |-> FALSE]
    [] op.kind = "end"      -> [isActive |-> FALSE, isCountdown |-> FALSE, gameOver |-> TRUE]

NewOp(c, kind, val) ==
  [c |-> c, kind |-> kind, val |-> val, phase |-> "read", snap |-> InitialGameState,
   seen |-> view[c]]

\* A sync effect that takes the delivered flags whatever pauseRequested is.
SyncEffectUnlocked(c, v, paused, active) ==
  LET shouldBeActive == v.isActive /\ ~v.gameOver
  IN [active |-> IF v.gameOver THEN FALSE ELSE shouldBeActive,
      paused |-> IF v.gameOver THEN FALSE ELSE paused]

\* The effect that syncs gameActiveRef from the delivered game data.
SyncEffect(c, v, paused, active) ==
  LET shouldBeActive == v.isActive /\ ~v.gameOver
      a1 == IF ~paused THEN shouldBeActive ELSE active
  IN [active |-> IF v.gameOver THEN FALSE ELSE a1,
      paused |-> IF v.gameOver THEN FALSE ELSE paused]

\* The runs explored: the state the tabs start from, the tabs that are open
\* and the buttons the host presses in each.  "active" is the state a run from
\* "setup" reaches once the countdown of tabA has finished and its call loop
\* waits for its first timer (LoopStarted below).
Idle == [c \in Clients |-> <<>>]
Run(from, tabs, a, b) ==
  [from |-> from, tabs |-> tabs, script |-> [Idle EXCEPT !["tabA"] = a, !["tabB"] = b]]
HostRuns ==
  { Run("setup", {"tabA"}, <<"start", "end">>, <<>>),
    Run("setup", {"tabA"}, <<"start", "resume">>, <<>>),
    Run("setup", {"tabA"}, <<"start", "pause">>, <<>>),
    Run("active", {"tabA"}, <<"pause", "resume">>, <<>>),
    Run("active", {"tabA"}, <<"end">>, <<>>),
    Run("active", {"tabA", "tabB"}, <<>>, <<"resume">>),
    Run("active", {"tabA", "tabB"}, <<"pause">>, <<"resume">>),
    Run("active", {"tabA", "tabB"}, <<"pause">>, <<"pause">>) }

ActiveGameState == [InitialGameState EXCEPT !.isActive = TRUE]

\* No HostControlsProvider is mounted.
IdleHC ==
  /\ gameActiveRef = [c \in Clients |-> FALSE]
  /\ pauseRequestedRef = [c \in Clients |-> FALSE]
  /\ timerGenerationRef = [c \in Clients |-> 0]
  /\ isProcessing = [c \in Clients |-> FALSE]
  /\ thrown = [c \in Clients |-> "none"]
  /\ timers = [c \in Clients |-> {}]
  /\ calls = [c \in Clients |-> {}]
  /\ countdownTimerRef = [c \in Clients |-> [on |-> FALSE, timeLeft |-> 0]]
  /\ view = [c \in Clients |-> [isActive |-> FALSE, gameOver |-> FALSE]]
  /\ effectDue = [c \in Clients |-> FALSE]
  /\ ops = {}
  /\ mounted = {}
  /\ script = Idle

\* Nobody calls the game service directly.
IdleSvc == svcOps = {} /\ svcCalls = 0

NoCountdown ==
  [on |-> FALSE, left |-> 0,
   cl |-> [avail |-> Numbers, cg |-> InitialGameState, h |-> 0]]

\* No GameHost component is mounted.
\* No resetGame is under way.
NoReset == [stage |-> "none", value |-> InitialGameState, todo |-> {}]

\* The host's account is active and its subscription has not ended.
ValidSubscription == [valid |-> TRUE, left |-> 0]

\* The largest ticket count a game may have (600 in the source).
TicketLimit == 3

\* The ticket count used when the form gives none (100 in the source).
DefaultTickets == 2

\* The form as the component creates it, nothing stored for the host, no
\* handler running.
NoSettings == [maxTickets |-> 0, prizes |-> {}]
NoConfig == [maxTickets |-> 0, prizes |-> {}]
IdleLobby ==
  [form |-> [maxTickets |-> DefaultTickets, prizes |-> PrizeIds, phone |-> FALSE,
             ticketSet |-> TRUE],
   scene |-> "none", path |-> "none", step |-> "idle", cfg |-> NoConfig,
   games |-> {}, settings |-> NoSettings]

\* A stored object, or the null of a path that does not exist.
Null == [exists |-> FALSE, obj |-> <<>>]

\* No safeTransactionUpdate has been called.
IdleTxn == [status |-> "idle", retries |-> 0, attempt |-> 0, delay |-> 0,
            updates |-> <<>>, data0 |-> Null, data |-> Null]

\* The component is not mounting.
IdleResume == [games |-> <<>>, picked |-> 0, stage |-> "idle"]

\* No number sequence is being generated.
IdleShuffle == [numbers |-> <<>>, i |-> 0]

\* What the announcer can say: one announcement per prize and the game over.
Announcements == PrizeIds \cup {"gameOver"}

\* The AudioManager as it mounts: its refs are empty, nothing has rendered.
IdleAudio ==
  [announcedPrizes |-> {}, announcedGameOver |-> FALSE, rendered |-> FALSE,
   gameOver |-> FALSE, said |-> [a \in Announcements |-> 0]]

\* The auth hook is not mounted.
IdleAuth ==
  [stage |-> "idle", listener |-> "idle", event |-> "none", sessionRole |-> "none",
   record |-> FALSE, loading |-> TRUE, initialized |-> FALSE, userRole |-> "none",
   error |-> "none"]

\* The callers of withGameLock, each with one operation on one game.
MaxCallers == 3
Callers == 1..MaxCallers
NoCaller == 0
LockKeys == {"game_1", "game_2"}

\* A caller that has not called yet.
IdleCaller == [stage |-> "idle", key |-> "game_1", awaits |-> NoCaller]

\* FirebaseCore with an empty activeLocks map and nothing under way.
IdleLocks ==
  [activeLocks |-> [key \in LockKeys |-> NoCaller],
   callers |-> [c \in Callers |-> IdleCaller],
   waiting |-> <<>>]

\* The winner announcements of one game session and the toasts per timestamp.
MaxWinners == 3
NoWinner == 0
MaxToasts == 2

\* No game is subscribed and no winner has been notified.
IdleToasts ==
  [subscribed |-> FALSE, games |-> 0, clock |-> 0, lastWinnerAt |-> NoWinner,
   delivered |-> TRUE, announcedWinners |-> {}, closure |-> {}, shown |-> [t \in 1..MaxWinners |-> 0]]

\* The items handed to addToQueue, numbered in the order they are handed.
MaxItems == 2
\* Game ids a subscription filter takes in one run.
MaxFilters == 2
\* Queries one subscription hook sends in one run.
MaxFetches == 4
\* Changes of the subscribed game id in one run.
MaxChanges == 3
\* Snapshots of the game data one GameHost receives in one run.
MaxSnapshots == 4
\* Presses of the create button in one run.
MaxCreations == 2
\* bookTicket calls made for the ticket in one run.
MaxBookings == 3
\* markTicketNumber calls made for the ticket in one run.
MaxMarks == 3
Items == 1..MaxItems
NoItem == 0

\* The audio queue is empty and nothing is being spoken.
IdleSpeech ==
  [available |-> FALSE, handed |-> 0, queue |-> <<>>, wrapped |-> {},
   isProcessingQueue |-> FALSE, currentAudioId |-> NoItem, isAudioCompleted |-> FALSE,
   early |-> FALSE, audioCompleted |-> [n \in Items |-> FALSE],
   events |-> [n \in Items |-> {}], callbackTimers |-> {}, nextTimers |-> 0,
   ran |-> [n \in Items |-> 0], isBlockedForAnnouncement |-> FALSE,
   lastCalledNumber |-> NoItem, currentNumber |-> NoItem, announcedPrizes |-> FALSE]

\* No ticket call is under way.
IdleTickets ==
  [isBooked |-> FALSE, playerName |-> NoPlayer, bookings |-> {}, booked |-> 0,
   markedNumbers |-> <<>>, marking |-> {}, marked |-> {}, marks |-> 0]

\* The subscription hook is not mounted.
IdleFeed ==
  [enabled |-> FALSE, filter |-> NoFilter, isMountedRef |-> TRUE, channel |-> NoFilter,
   data |-> NoFilter, loading |-> FALSE, error |-> FALSE, fetches |-> {}, fetched |-> 0,
   changes |-> 0]

\* GameHost before any game has completed.
IdleUi ==
  [uiState |-> "calculated", cachedWinnerData |-> NoGameData, gameData |-> NoGameData,
   gameOver |-> FALSE, creating |-> "idle", moves |-> {}, snapshots |-> 0, creations |-> 0]

IdlePlay ==
  /\ toasts = IdleToasts /\ speech = IdleSpeech /\ tickets = IdleTickets
  /\ feed = IdleFeed /\ ui = IdleUi

IdleAux ==
  /\ shuffle = IdleShuffle /\ audio = IdleAudio /\ auth = IdleAuth /\ locks = IdleLocks
  /\ IdlePlay

\* The host is on the dashboard and no handler of it runs.
IdleDashboard ==
  /\ resetRun = NoReset /\ subscription = ValidSubscription /\ dashboard = TRUE
  /\ lobby = IdleLobby /\ txn = IdleTxn /\ resume = IdleResume

IdleHost == IdleDashboard /\ IdleAux

\* No game is driven from a GameHost component.
IdleGameHost ==
  /\ currentGame = InitialGameState
  /\ availableNumbers = Numbers
  /\ gameInterval = 0
  /\ intervals = {}
  /\ countdownInterval = NoCountdown
  /\ ghCalls = {}
  /\ ghWrites = {}
  /\ raceBase = -1
  /\ ghScript = [next |-> <<>>, pressed |-> {}]

IdleGH == IdleHost /\ IdleGameHost

\* The row createGame inserts.
CreatedGame ==
  /\ status = "setup"
  /\ gs = InitialGameState
  /\ session = <<>>
  /\ endedAt = FALSE
  /\ prizes = [p \in PrizeIds |-> UnwonPrize]
  /\ committed = <<>>

\* The tabs of run r are mounted on the game.
InitRun(r) ==
  LET running == r.from = "active"
      loopTab == [c \in Clients |-> running /\ c = "tabA"]
  IN
  /\ script = r.script
  /\ mounted = r.tabs
  /\ status = "setup"
  /\ gs = IF running THEN ActiveGameState ELSE InitialGameState
  /\ session = [i \in 1..MaxNumber |-> i]   \* a sequence generateGameNumbers stored
  /\ endedAt = FALSE
  /\ prizes = [p \in PrizeIds |-> UnwonPrize]
  /\ committed = <<>>
  /\ gameActiveRef = loopTab
  /\ pauseRequestedRef = [c \in Clients |-> FALSE]
  /\ timerGenerationRef = [c \in Clients |-> 0]
  /\ isProcessing = [c \in Clients |-> FALSE]
  /\ thrown = [c \in Clients |-> "none"]
  /\ timers = [c \in Clients |-> IF loopTab[c] THEN {[gen |-> 0, ref |-> TRUE]} ELSE {}]
  /\ calls = [c \in Clients |-> {}]
  /\ countdownTimerRef = [c \in Clients |-> [on |-> FALSE, timeLeft |-> 0]]
  /\ view = [c \in Clients |-> [isActive |-> loopTab[c], gameOver |-> FALSE]]
  /\ effectDue = [c \in Clients |-> FALSE]
  /\ ops = {}
  /\ faults = 0
  /\ IdleSvc
  /\ IdleGH

Init == \E r \in HostRuns : InitRun(r)

\* The runs that start with the call loop running.
InitLoop == \E r \in HostRuns : r.from = "active" /\ InitRun(r)


\* ---------------------------------------------- supabase-game.updateGameState
\* getGameData: the current game_state is read.
OpRead(op) ==
  /\ op \in ops /\ op.phase = "read"
  /\ ops' = (ops \ {op}) \cup {[op EXCEPT !.phase = "write", !.snap = gs]}
  /\ UNCHANGED <<storeVars, gameActiveRef, pauseRequestedRef, timerGenerationRef,
                 isProcessing, thrown, timers, calls, countdownTimerRef, view, effectDue,
                 envVars, faults>>

\* A rollback that restarts the loop without looking at the game data.
RollbackRestartsAlways(seen) == TRUE

\* The catch of pauseGame restarts the loop for the game data of its closure.
RollbackRestarts(seen) == seen.isActive /\ ~seen.gameOver

\* What the caller does once its updateGameState has settled.
OpSettled(op, ok) ==
  LET c == op.c
      gen == timerGenerationRef[c]
      rollback == op.kind = "pause" /\ ~ok
      restart == rollback /\ RollbackRestarts(op.seen)
      action == op.kind \in {"start", "pause", "resume", "end"}
      resumed == op.kind = "resume" /\ ok
      activated == op.kind = "cd_final" /\ ok
      gen2 == IF resumed THEN gen + 1 ELSE gen
      paused2 == IF rollback \/ resumed THEN FALSE ELSE pauseRequestedRef[c]
      active2 == IF restart \/ resumed \/ activated THEN TRUE ELSE gameActiveRef[c]
  IN /\ ops' = ops \ {op}
     /\ timerGenerationRef' = [timerGenerationRef EXCEPT ![c] = gen2]
     /\ pauseRequestedRef' = [pauseRequestedRef EXCEPT ![c] = paused2]
     /\ effectDue' = [effectDue EXCEPT ![c] = @ \/ paused2 # pauseRequestedRef[c]]
     /\ gameActiveRef' = [gameActiveRef EXCEPT ![c] = active2]
     /\ timers' = [timers EXCEPT ![c] =
                     IF restart \/ resumed \/ activated
                     THEN ScheduleNextCall(@, gen2, gen2, active2, paused2)
                     ELSE @]
     /\ countdownTimerRef' = [countdownTimerRef EXCEPT ![c] =
                     IF op.kind = "start" /\ ok
                     THEN [on |-> TRUE, timeLeft |-> CountdownStart]
                     ELSE @]
     /\ isProcessing' = [isProcessing EXCEPT ![c] = IF action THEN FALSE ELSE @]
     /\ thrown' = [thrown EXCEPT ![c] = IF action /\ ~ok THEN op.kind ELSE @]
     /\ UNCHANGED <<calls, view>>

\* The merged game_state is written back.
OpWrite(op) ==
  /\ op \in ops /\ op.phase = "write"
  /\ gs' = Merge(op.snap, Patch(op))
  /\ OpSettled(op, TRUE)
  /\ UNCHANGED <<status, session, endedAt, prizes, committed, envVars, faults>>

\* The read or the write failed and updateGameState threw.
OpFail(op) ==
  /\ op \in ops
  /\ faults < MaxFaults
  /\ faults' = faults + 1
  /\ OpSettled(op, FALSE)
  /\ UNCHANGED <<storeVars, envVars>>

\* ------------------------------------------------------------ host actions
\* The host presses the next button of the run in tab c.
Invoked(c, action) ==
  /\ script[c] # <<>> /\ Head(script[c]) = action
  /\ script' = [script EXCEPT ![c] = Tail(@)]

\* A guard that lets a press through while another action is pending.
ProcessingNever(flag) == FALSE

\* The isProcessing test that opens each host action.
Processing(flag) == flag

startGame(c) ==
  /\ Invoked(c, "start")
  /\ ~Processing(isProcessing[c])
  /\ isProcessing' = [isProcessing EXCEPT ![c] = TRUE]
  /\ thrown' = [thrown EXCEPT ![c] = "none"]
  /\ pauseRequestedRef' = [pauseRequestedRef EXCEPT ![c] = FALSE]
  /\ effectDue' = [effectDue EXCEPT ![c] = @ \/ pauseRequestedRef[c]]
  /\ timers' = [timers EXCEPT ![c] = ClearGameTimer(@)]
  /\ countdownTimerRef' = [countdownTimerRef EXCEPT ![c].on = FALSE]
  /\ gameActiveRef' = [gameActiveRef EXCEPT ![c] = FALSE]
  /\ ops' = ops \cup {NewOp(c, "start", 0)}
  /\ UNCHANGED <<storeVars, timerGenerationRef, calls, view, faults, fixedHC>>

pauseGame(c) ==
  /\ Invoked(c, "pause")
  /\ ~Processing(isProcessing[c])
  /\ isProcessing' = [isProcessing EXCEPT ![c] = TRUE]
  /\ thrown' = [thrown EXCEPT ![c] = "none"]
  /\ timerGenerationRef' = [timerGenerationRef EXCEPT ![c] = @ + 1]
  /\ pauseRequestedRef' = [pauseRequestedRef EXCEPT ![c] = TRUE]
  /\ effectDue' = [effectDue EXCEPT ![c] = @ \/ ~pauseRequestedRef[c]]
  /\ gameActiveRef' = [gameActiveRef EXCEPT ![c] = FALSE]
  /\ timers' = [timers EXCEPT ![c] = ClearGameTimer(@)]
  /\ countdownTimerRef' = [countdownTimerRef EXCEPT ![c].on = FALSE]
  /\ ops' = ops \cup {NewOp(c, "pause", 0)}
  /\ UNCHANGED <<storeVars, calls, view, faults, fixedHC>>

resumeGame(c) ==
  /\ Invoked(c, "resume")
  /\ ~Processing(isProcessing[c])
  /\ isProcessing' = [isProcessing EXCEPT ![c] = TRUE]
  /\ thrown' = [thrown EXCEPT ![c] = "none"]
  /\ ops' = ops \cup {NewOp(c, "resume", 0)}
  /\ UNCHANGED <<storeVars, gameActiveRef, pauseRequestedRef, timerGenerationRef,
                 timers, calls, countdownTimerRef, view, effectDue, faults, fixedHC>>

endGame(c) ==
  /\ Invoked(c, "end")
  /\ ~Processing(isProcessing[c])
  /\ isProcessing' = [isProcessing EXCEPT ![c] = TRUE]
  /\ thrown' = [thrown EXCEPT ![c] = "none"]
  /\ pauseRequestedRef' = [pauseRequestedRef EXCEPT ![c] = FALSE]
  /\ effectDue' = [effectDue EXCEPT ![c] = @ \/ pauseRequestedRef[c]]
  /\ timers' = [timers EXCEPT ![c] = ClearGameTimer(@)]
  /\ countdownTimerRef' = [countdownTimerRef EXCEPT ![c].on = FALSE]
  /\ gameActiveRef' = [gameActiveRef EXCEPT ![c] = FALSE]
  /\ ops' = ops \cup {NewOp(c, "end", 0)}
  /\ UNCHANGED <<storeVars, timerGenerationRef, calls, view, faults, fixedHC>>

\* -------------------------------------------------- countdown interval
\* One firing of the setInterval callback of startGame, up to its await.
CountdownFire(c) ==
  /\ countdownTimerRef[c].on
  /\ LET timeLeft == countdownTimerRef[c].timeLeft - 1
     IN IF timeLeft > 0
        THEN /\ countdownTimerRef' = [countdownTimerRef EXCEPT ![c].timeLeft = timeLeft]
             /\ ops' = ops \cup {NewOp(c, "cd_tick", timeLeft)}
        ELSE /\ countdownTimerRef' = [countdownTimerRef EXCEPT ![c] =
                                        [on |-> FALSE, timeLeft |-> 0]]
             /\ ops' = ops \cup {NewOp(c, "cd_final", 0)}
  /\ UNCHANGED <<storeVars, gameActiveRef, pauseRequestedRef, timerGenerationRef,
                 isProcessing, thrown, timers, calls, view, effectDue, envVars, faults>>

\* ------------------------------------------------------- the call loop
FreshId(ks) == CHOOSE i \in 1..(Cardinality(ks) + 1) : \A k \in ks : k.id # i

\* The setTimeout callback of scheduleNextCall, up to its await.
TimerFire(c, t) ==
  /\ t \in timers[c]
  /\ timers' = [timers EXCEPT ![c] = @ \ {t}]
  /\ calls' = [calls EXCEPT ![c] =
       IF t.gen # timerGenerationRef[c] \/ ~gameActiveRef[c] \/ pauseRequestedRef[c]
       THEN @
       ELSE @ \cup {[id |-> FreshId(@), gen |-> t.gen, phase |-> "sent"]}]
  /\ UNCHANGED <<storeVars, gameActiveRef, pauseRequestedRef, timerGenerationRef,
                 isProcessing, thrown, countdownTimerRef, view, effectDue, ops, envVars, faults>>

\* The server runs call_next_number for the tick.
CallCommit(c, k) ==
  /\ k \in calls[c] /\ k.phase = "sent"
  /\ \E res \in {"ok", "stop"} :
       /\ CallNextNumber(res)
       /\ calls' = [calls EXCEPT ![c] = (@ \ {k}) \cup {[k EXCEPT !.phase = res]}]
  /\ UNCHANGED <<session, prizes, gameActiveRef, pauseRequestedRef, timerGenerationRef,
                 isProcessing, thrown, timers, countdownTimerRef, view, effectDue, ops,
                 envVars, faults>>

\* The call fails (storage conflict, network) without committing.
CallFail(c, k) ==
  /\ k \in calls[c] /\ k.phase = "sent"
  /\ faults < MaxFaults
  /\ faults' = faults + 1
  /\ calls' = [calls EXCEPT ![c] = (@ \ {k}) \cup {[k EXCEPT !.phase = "err"]}]
  /\ UNCHANGED <<storeVars, gameActiveRef, pauseRequestedRef, timerGenerationRef,
                 isProcessing, thrown, timers, countdownTimerRef, view, effectDue, ops, envVars>>

\* The timer callback continues after its await.
CallReturn(c, k) ==
  /\ k \in calls[c] /\ k.phase # "sent"
  /\ calls' = [calls EXCEPT ![c] = @ \ {k}]
  /\ LET cur == timerGenerationRef[c]
         live == gameActiveRef[c] /\ ~pauseRequestedRef[c]
         stop == k.phase # "err" /\ k.gen = cur /\ ~(k.phase = "ok" /\ live)
     IN /\ timers' = [timers EXCEPT ![c] =
                        IF stop THEN ClearGameTimer(@)
                        ELSE ScheduleNextCall(@, k.gen, cur, gameActiveRef[c],
                                              pauseRequestedRef[c])]
        /\ countdownTimerRef' = [countdownTimerRef EXCEPT ![c].on = IF stop THEN FALSE ELSE @]
        /\ gameActiveRef' = [gameActiveRef EXCEPT ![c] = IF stop THEN FALSE ELSE @]
  /\ UNCHANGED <<storeVars, pauseRequestedRef, timerGenerationRef, isProcessing, thrown,
                 view, effectDue, ops, envVars, faults>>

\* --------------------------------------------------------- subscription
StoredFlags == [isActive |-> gs.isActive, gameOver |-> gs.gameOver]

\* A snapshot with changed isActive/gameOver reaches the tab; the effect runs.
Deliver(c) ==
  /\ c \in mounted
  /\ view[c] # StoredFlags
  /\ view' = [view EXCEPT ![c] = StoredFlags]
  /\ LET r == SyncEffect(c, StoredFlags, pauseRequestedRef[c], gameActiveRef[c])
     IN /\ gameActiveRef' = [gameActiveRef EXCEPT ![c] = r.active]
        /\ pauseRequestedRef' = [pauseRequestedRef EXCEPT ![c] = r.paused]
  /\ effectDue' = [effectDue EXCEPT ![c] = FALSE]
  /\ UNCHANGED <<storeVars, timerGenerationRef, isProcessing, thrown, timers, calls,
                 countdownTimerRef, ops, envVars, faults>>

\* The effect runs because pauseRequested changed.
RunEffect(c) ==
  /\ effectDue[c]
  /\ LET r == SyncEffect(c, view[c], pauseRequestedRef[c], gameActiveRef[c])
     IN /\ gameActiveRef' = [gameActiveRef EXCEPT ![c] = r.active]
        /\ pauseRequestedRef' = [pauseRequestedRef EXCEPT ![c] = r.paused]
  /\ effectDue' = [effectDue EXCEPT ![c] = FALSE]
  /\ UNCHANGED <<storeVars, timerGenerationRef, isProcessing, thrown, timers, calls,
                 countdownTimerRef, view, ops, envVars, faults>>

NextHC ==
  \/ \E c \in Clients : startGame(c)
  \/ \E c \in Clients : pauseGame(c)
  \/ \E c \in Clients : resumeGame(c)
  \/ \E c \in Clients : endGame(c)
  \/ \E c \in Clients : CountdownFire(c)
  \/ \E op \in ops : OpRead(op)
  \/ \E op \in ops : OpWrite(op)
  \/ \E op \in ops : OpFail(op)
  \/ \E c \in Clients : \E t \in timers[c] : TimerFire(c, t)
  \/ \E c \in Clients : \E k \in calls[c] : CallCommit(c, k)
  \/ \E c \in Clients : \E k \in calls[c] : CallFail(c, k)
  \/ \E c \in Clients : \E k \in calls[c] : CallReturn(c, k)
  \/ \E c \in Clients : Deliver(c)
  \/ \E c \in Clients : RunEffect(c)

SpecHC == Init /\ [][NextHC]_vars

\* The call loop alone: the countdown is over when the run begins.
NextLoop ==
  \/ \E c \in Clients : pauseGame(c)
  \/ \E c \in Clients : resumeGame(c)
  \/ \E c \in Clients : endGame(c)
  \/ \E op \in ops : OpRead(op)
  \/ \E op \in ops : OpWrite(op)
  \/ \E op \in ops : OpFail(op)
  \/ \E c \in Clients : \E t \in timers[c] : TimerFire(c, t)
  \/ \E c \in Clients : \E k \in calls[c] : CallCommit(c, k)
  \/ \E c \in Clients : \E k \in calls[c] : CallFail(c, k)
  \/ \E c \in Clients : \E k \in calls[c] : CallReturn(c, k)
  \/ \E c \in Clients : Deliver(c)
  \/ \E c \in Clients : RunEffect(c)

SpecLoop == InitLoop /\ [][NextLoop]_vars

\* ------------------------------------------------- the Supabase game service
\* Callers invoke the operations of supabase-game.ts in any order.
Invoke == svcCalls < MaxSvcCalls /\ svcCalls' = svcCalls + 1

NotSvc == <<hcVars, mounted, script, faults, ghVars, hostVars>>

\* A swap that writes only one of the two places.
SwapOneWay(s, i, j) == [s EXCEPT ![i] = s[j]]

Swap(s, i, j) == [s EXCEPT ![i] = s[j], ![j] = s[i]]

\* The Fisher-Yates loop of generateNumberSequence from index i down.
RECURSIVE Shuffle(_, _)
Shuffle(s, i) ==
  IF i <= 1 THEN {s}
  ELSE UNION {Shuffle(Swap(s, i, j), i - 1) : j \in 1..i}

generateNumberSequence == Shuffle([i \in 1..MaxNumber |-> i], MaxNumber)

SvcOp(kind, val, p, upd) == [kind |-> kind, snap |-> gs, val |-> val, p |-> p, upd |-> upd]

startGameWithCountdown ==
  /\ Invoke
  /\ \E numbers \in generateNumberSequence : session' = numbers
  /\ status' = "countdown"
  /\ gs' = [isActive |-> FALSE, isCountdown |-> TRUE, countdownTime |-> CountdownStart,
            gameOver |-> FALSE, calledNumbers |-> <<>>, currentNumber |-> NoNumber]
  /\ UNCHANGED <<endedAt, prizes, committed, svcOps, NotSvc>>

\* generateGameNumbers: a new sequence replaces session_numbers; an update
\* error is returned as success: false.
generateGameNumbers(ok) ==
  /\ Invoke
  /\ IF ok THEN \E numbers \in generateNumberSequence : session' = numbers
     ELSE UNCHANGED session
  /\ UNCHANGED <<status, gs, endedAt, prizes, committed, svcOps, NotSvc>>

\* updateCountdownTime up to its getGameData.
updateCountdownTime(timeLeft) ==
  /\ Invoke
  /\ svcOps' = svcOps \cup {SvcOp("countdown", timeLeft, "", UnwonPrize)}
  /\ UNCHANGED <<storeVars, NotSvc>>

\* updateCountdownTime writes the game_state it merged.
CountdownWrite(op) ==
  /\ op \in svcOps /\ op.kind = "countdown"
  /\ svcOps' = svcOps \ {op}
  /\ gs' = Merge(op.snap, [countdownTime |-> op.val])
  /\ UNCHANGED <<status, session, endedAt, prizes, committed, svcCalls, NotSvc>>

activateGameAfterCountdown ==
  /\ Invoke
  /\ status' = "active"
  /\ gs' = [isActive |-> TRUE, isCountdown |-> FALSE, countdownTime |-> 0,
            gameOver |-> FALSE, calledNumbers |-> <<>>, currentNumber |-> NoNumber]
  /\ UNCHANGED <<session, endedAt, prizes, committed, svcOps, NotSvc>>

SvcPauseGame ==
  /\ Invoke
  /\ status' = "paused"
  /\ UNCHANGED <<gs, session, endedAt, prizes, committed, svcOps, NotSvc>>

SvcResumeGame ==
  /\ Invoke
  /\ status' = "active"
  /\ UNCHANGED <<gs, session, endedAt, prizes, committed, svcOps, NotSvc>>

\* endGame up to its getGameData.
SvcEndGame ==
  /\ Invoke
  /\ svcOps' = svcOps \cup {SvcOp("end", 0, "", UnwonPrize)}
  /\ UNCHANGED <<storeVars, NotSvc>>

\* endGame writes status, the merged game_state and ended_at.
EndWrite(op) ==
  /\ op \in svcOps /\ op.kind = "end"
  /\ svcOps' = svcOps \ {op}
  /\ status' = "finished"
  /\ gs' = Merge(op.snap, [isActive |-> FALSE, gameOver |-> TRUE])
  /\ endedAt' = TRUE
  /\ UNCHANGED <<session, prizes, committed, svcCalls, NotSvc>>

callNextNumberAndContinue ==
  /\ \E res \in {"ok", "stop"} : CallNextNumber(res)
  /\ UNCHANGED <<session, prizes, svcVars, NotSvc>>

\* The tickets booked for the game and the numbers each must have called to
\* win the prize.
Tickets == {"t1", "t2"}
TicketNumbers == [t \in Tickets |-> IF t = "t1" THEN {1} ELSE {1, 2}]
checkWinCondition(t, calledNumbers) == TicketNumbers[t] \subseteq Range(calledNumbers)
Winners(calledNumbers) == {t \in Tickets : checkWinCondition(t, calledNumbers)}

\* A tick evaluates prize p: it has read the prize as not won, finds the
\* winning tickets and is about to call updatePrize.
PrizeCheck(p) ==
  /\ Invoke
  /\ ~prizes[p].won
  /\ Winners(gs.calledNumbers) # {}
  /\ svcOps' = svcOps \cup
       {SvcOp("prize", 0, p, [won |-> TRUE, winners |-> Winners(gs.calledNumbers),
                              winningNumber |-> gs.currentNumber])}
  /\ UNCHANGED <<storeVars, NotSvc>>

updatePrize(op) ==
  /\ op \in svcOps /\ op.kind = "prize"
  /\ svcOps' = svcOps \ {op}
  /\ prizes' = [prizes EXCEPT ![op.p] = Merge(@, op.upd)]
  /\ UNCHANGED <<status, gs, session, endedAt, committed, svcCalls, NotSvc>>

InitSvc ==
  /\ CreatedGame
  /\ IdleHC /\ IdleSvc /\ IdleGH
  /\ faults = 0

NextSvc ==
  \/ startGameWithCountdown
  \/ \E t \in 1..(CountdownStart - 1) : updateCountdownTime(t)
  \/ \E op \in svcOps : CountdownWrite(op)
  \/ activateGameAfterCountdown
  \/ SvcPauseGame
  \/ SvcResumeGame
  \/ SvcEndGame
  \/ \E op \in svcOps : EndWrite(op)
  \/ callNextNumberAndContinue
  \/ \E p \in PrizeIds : PrizeCheck(p)
  \/ \E op \in svcOps : updatePrize(op)
  \/ \E ok \in BOOLEAN : generateGameNumbers(ok)

SpecSvc == InitSvc /\ [][NextSvc]_vars

\* ------------------------------------ GameHost over the Firebase game store
NotGH == <<hcVars, mounted, script, svcVars, hostVars>>

\* What a function created in the current render closes over.
Closure == [avail |-> availableNumbers, cg |-> currentGame, h |-> gameInterval]

GHInvoked(action) ==
  /\ ghScript.next # <<>> /\ Head(ghScript.next) = action
  /\ ghWrites = {}
  /\ ghScript' = [next |-> Tail(ghScript.next), pressed |-> ghScript.pressed \cup {action}]

\* firebaseService.updateGameState(gameId, {...currentGame.gameState, ...patch})
\* has been called and has not settled.
GHWriteOf(kind, cl, patch) ==
  [kind |-> kind, value |-> Merge(cl.cg, patch), cl |-> cl]

\* clearInterval(h) of a call interval.
ClearInterval(ivs, h) == {i \in ivs : i.id # h}

FreshHandle(ivs, h) == CHOOSE n \in 1..(Cardinality(ivs) + 2) : n # h /\ \A i \in ivs : i.id # n

\* startNumberCalling of the render cl: a new interval; the effect cleanup
\* clears the handle gameInterval held before.
startNumberCalling(cl) ==
  LET id == FreshHandle(intervals, gameInterval)
  IN /\ intervals' = ClearInterval(intervals, gameInterval) \cup {[id |-> id, cl |-> cl]}
     /\ gameInterval' = id

startCountdown ==
  /\ GHInvoked("start")
  /\ ghWrites' = IF ~subscription.valid THEN ghWrites
                 ELSE ghWrites \cup
       {GHWriteOf("countdown", Closure,
                  [isCountdown |-> TRUE, countdownTime |-> CountdownStart, isActive |-> FALSE])}
  /\ UNCHANGED <<storeVars, currentGame, availableNumbers, gameInterval, intervals,
                 countdownInterval, ghCalls, raceBase, faults, NotGH>>

\* FirebaseCore.updateGameState: set() replaces the stored game state; the
\* caller continues after its await.
GHWrite(w) ==
  /\ w \in ghWrites
  /\ ghWrites' = ghWrites \ {w}
  /\ gs' = w.value
  /\ countdownInterval' =
       IF w.kind = "countdown" THEN [on |-> TRUE, left |-> CountdownStart, cl |-> w.cl]
       ELSE countdownInterval
  /\ IF w.kind \in {"start", "resume"}
     THEN startNumberCalling(w.cl)
     ELSE UNCHANGED <<intervals, gameInterval>>
  /\ UNCHANGED <<status, session, endedAt, prizes, committed, currentGame,
                 availableNumbers, ghCalls, raceBase, ghScript, faults, NotGH>>

\* set() rejects; the caller shows the error.
GHWriteFail(w) ==
  /\ w \in ghWrites
  /\ faults < MaxFaults
  /\ faults' = faults + 1
  /\ ghWrites' = ghWrites \ {w}
  /\ UNCHANGED <<storeVars, currentGame, availableNumbers, gameInterval, intervals,
                 countdownInterval, ghCalls, raceBase, ghScript, NotGH>>

\* One firing of the countdown interval; the last one calls startGame.
CountdownTick ==
  /\ countdownInterval.on
  /\ IF countdownInterval.left <= 1
     THEN /\ countdownInterval' = [countdownInterval EXCEPT !.on = FALSE, !.left = 0]
          /\ ghWrites' = ghWrites \cup
               {GHWriteOf("start", countdownInterval.cl,
                          [isCountdown |-> FALSE, isActive |-> TRUE, countdownTime |-> 0])}
     ELSE /\ countdownInterval' = [countdownInterval EXCEPT !.left = @ - 1]
          /\ UNCHANGED ghWrites
  /\ UNCHANGED <<storeVars, currentGame, availableNumbers, gameInterval, intervals,
                 ghCalls, raceBase, ghScript, faults, NotGH>>

EndPatch == [isActive |-> FALSE, isCountdown |-> FALSE, gameOver |-> TRUE,
             currentNumber |-> NoNumber]

\* The interval callback picks numberToBeCalled = n and awaits the call.
IntervalTick(i, n) ==
  /\ i \in intervals
  /\ n \in i.cl.avail
  /\ Cardinality(ghCalls) < MaxInFlight
  /\ availableNumbers' = availableNumbers \ {n}
  /\ ghCalls' = ghCalls \cup
       {[id |-> FreshId(ghCalls), n |-> n, phase |-> "sent"]}
  /\ UNCHANGED <<storeVars, currentGame, gameInterval, intervals, countdownInterval,
                 ghWrites, raceBase, ghScript, faults, NotGH>>

\* The interval callback finds no number available and ends the game.
IntervalEnd(i) ==
  /\ i \in intervals
  /\ i.cl.avail = {}
  /\ intervals' = ClearInterval(ClearInterval(intervals, i.id), i.cl.h)
  /\ gameInterval' = 0
  /\ ghWrites' = ghWrites \cup {GHWriteOf("end", i.cl, EndPatch)}
  /\ UNCHANGED <<storeVars, currentGame, availableNumbers, countdownInterval,
                 ghCalls, raceBase, ghScript, faults, NotGH>>

\* callNumberWithPrizeValidation(gameId, n): one atomic update that appends n
\* and records the prizes n wins, or rejects.
callNumberWithPrizeValidation(n, ok) ==
  IF Callable(status, gs) /\ n \notin Range(gs.calledNumbers)
  THEN LET called == Append(gs.calledNumbers, n)
       IN /\ ok
          /\ gs' = [gs EXCEPT !.calledNumbers = called, !.currentNumber = n]
          /\ committed' = Append(committed, n)
          /\ prizes' = [p \in PrizeIds |->
                          IF ~prizes[p].won /\ Winners(called) # {}
                          THEN [won |-> TRUE, winners |-> Winners(called), winningNumber |-> n]
                          ELSE prizes[p]]
  ELSE ~ok /\ UNCHANGED <<gs, committed, prizes>>

GHCallCommit(k) ==
  /\ k \in ghCalls /\ k.phase = "sent"
  /\ \E ok \in BOOLEAN :
       /\ callNumberWithPrizeValidation(k.n, ok)
       /\ ghCalls' = (ghCalls \ {k}) \cup {[k EXCEPT !.phase = IF ok THEN "ok" ELSE "err"]}
  /\ UNCHANGED <<status, session, endedAt, currentGame, availableNumbers, gameInterval,
                 intervals, countdownInterval, ghWrites, raceBase, ghScript,
                 faults, NotGH>>

GHCallFail(k) ==
  /\ k \in ghCalls /\ k.phase = "sent"
  /\ faults < MaxFaults
  /\ faults' = faults + 1
  /\ ghCalls' = (ghCalls \ {k}) \cup {[k EXCEPT !.phase = "err"]}
  /\ UNCHANGED <<storeVars, currentGame, availableNumbers, gameInterval, intervals,
                 countdownInterval, ghWrites, raceBase, ghScript, NotGH>>

\* The callback continues after its await: the clear of the shown number is
\* scheduled, or the optimistic update is reverted.
GHCallReturn(k) ==
  /\ k \in ghCalls /\ k.phase \in {"ok", "err"}
  /\ ghCalls' = IF k.phase = "ok" THEN (ghCalls \ {k}) \cup {[k EXCEPT !.phase = "shown"]}
                ELSE ghCalls \ {k}
  /\ availableNumbers' = IF k.phase = "err" THEN availableNumbers \cup {k.n}
                         ELSE availableNumbers
  /\ UNCHANGED <<storeVars, currentGame, gameInterval, intervals, countdownInterval,
                 ghWrites, raceBase, ghScript, faults, NotGH>>

\* clearCurrentNumber(gameId), three seconds after the call returned.
clearCurrentNumber(k) ==
  /\ k \in ghCalls /\ k.phase = "shown"
  /\ ghCalls' = ghCalls \ {k}
  /\ gs' = [gs EXCEPT !.currentNumber = NoNumber]
  /\ UNCHANGED <<status, session, endedAt, prizes, committed, currentGame,
                 availableNumbers, gameInterval, intervals, countdownInterval,
                 ghWrites, raceBase, ghScript, faults, NotGH>>

\* The host's buttons: each clears the intervals of the current render and
\* writes the game state the render holds.
HostButton(action, patch) ==
  /\ GHInvoked(action)
  /\ intervals' = ClearInterval(intervals, gameInterval)
  /\ gameInterval' = 0
  /\ countdownInterval' = [countdownInterval EXCEPT !.on = FALSE]
  /\ ghWrites' = ghWrites \cup {GHWriteOf(action, Closure, patch)}
  /\ UNCHANGED <<storeVars, currentGame, availableNumbers, ghCalls, faults, NotGH>>

GHpauseGame ==
  /\ HostButton("pause", [isActive |-> FALSE, isCountdown |-> FALSE])
  /\ raceBase' = IF ghWrites = {} /\ \E k \in ghCalls : ghCalls = {k} /\ k.phase = "sent"
                 THEN Len(gs.calledNumbers)
                 ELSE -1

GHendGame ==
  /\ HostButton("end", EndPatch)
  /\ raceBase' = -1

GHresumeGame ==
  /\ GHInvoked("resume")
  /\ ghWrites' = ghWrites \cup
       {GHWriteOf("resume", Closure, [isActive |-> TRUE, isCountdown |-> FALSE])}
  /\ raceBase' = -1
  /\ UNCHANGED <<storeVars, currentGame, availableNumbers, gameInterval, intervals,
                 countdownInterval, ghCalls, faults, NotGH>>

\* The subscription callback: the stored game reaches the component.
GHDeliver ==
  /\ currentGame # gs
  /\ currentGame' = gs
  /\ availableNumbers' = Numbers \ Range(gs.calledNumbers)
  /\ UNCHANGED <<storeVars, gameInterval, intervals, countdownInterval, ghCalls,
                 ghWrites, raceBase, ghScript, faults, NotGH>>

\* The buttons the host presses in the runs explored; the host presses one
\* once the write of the previous one has settled.
GHRuns ==
  { <<"start">>, <<"start", "pause">>, <<"start", "pause", "resume">>, <<"start", "end">> }

InitGH ==
  /\ CreatedGame
  /\ IdleHC /\ IdleSvc
  /\ currentGame = InitialGameState
  /\ availableNumbers = Numbers
  /\ gameInterval = 0
  /\ intervals = {}
  /\ countdownInterval = NoCountdown
  /\ ghCalls = {}
  /\ ghWrites = {}
  /\ raceBase = -1
  /\ \E r \in GHRuns : ghScript = [next |-> r, pressed |-> {}]
  /\ IdleHost
  /\ faults = 0

NextGH ==
  \/ startCountdown
  \/ GHpauseGame
  \/ GHresumeGame
  \/ GHendGame
  \/ CountdownTick
  \/ \E w \in ghWrites : GHWrite(w)
  \/ \E w \in ghWrites : GHWriteFail(w)
  \/ \E i \in intervals : \E n \in Numbers : IntervalTick(i, n)
  \/ \E i \in intervals : IntervalEnd(i)
  \/ \E k \in ghCalls : GHCallCommit(k)
  \/ \E k \in ghCalls : GHCallFail(k)
  \/ \E k \in ghCalls : GHCallReturn(k)
  \/ \E k \in ghCalls : clearCurrentNumber(k)
  \/ GHDeliver

SpecGH == InitGH /\ [][NextGH]_vars

\* The timers keep firing, the store answers and the subscription delivers;
\* the random pick of the interval callback does not avoid a number forever.
FairGH ==
  /\ WF_vars(startCountdown)
  /\ WF_vars(CountdownTick)
  /\ WF_vars(\E w \in ghWrites : GHWrite(w))
  /\ \A n \in Numbers : SF_vars(\E i \in intervals : IntervalTick(i, n))
  /\ WF_vars(\E i \in intervals : IntervalEnd(i))
  /\ WF_vars(\E k \in ghCalls : GHCallCommit(k))
  /\ WF_vars(\E k \in ghCalls : GHCallReturn(k))
  /\ WF_vars(\E k \in ghCalls : clearCurrentNumber(k))
  /\ WF_vars(GHDeliver)

FairSpecGH == SpecGH /\ FairGH

\* C1: the stored calledNumbers holds each number at most once.
NoDuplicateCalls == NoDuplicates(gs.calledNumbers) /\ Range(gs.calledNumbers) \subseteq Numbers

\* Two tabs drive the same game and a tick of each has just been committed.
BothTabsCalled ==
  /\ \E k \in calls["tabA"] : k.phase = "ok"
  /\ \E k \in calls["tabB"] : k.phase = "ok"
  /\ Len(gs.calledNumbers) = 2


\* C3: while the stored state shows the game not running (before and after a
\* step), calledNumbers does not grow: no tick commits after the pause is
\* recorded and before a resume is.
NoCallWhilePaused ==
  [][(~gs.isActive /\ ~gs'.isActive)
       => Len(gs'.calledNumbers) <= Len(gs.calledNumbers)]_vars

\* C5: every committed call is based on a stored state that holds exactly the
\* calls committed before it, and lengthens calledNumbers by one.
CallsInOrder ==
  [][committed' # committed
       => /\ gs.calledNumbers = committed
          /\ gs'.calledNumbers = committed']_vars

\* C6: no update removes or replaces a number that was already appended.
CalledNumbersAppendOnly ==
  [][IsPrefix(gs.calledNumbers, gs'.calledNumbers)]_vars

\* C8: once the stored game is over it stays over, is not active again, and
\* its called numbers and prizes no longer change.
FinishedIsFrozen ==
  [][gs.gameOver
       => /\ gs'.gameOver /\ ~gs'.isActive
          /\ gs'.calledNumbers = gs.calledNumbers
          /\ prizes' = prizes]_vars

\* C2: once a prize is marked won, its winners and winning number stay as
\* they are.
PrizeAwardedOnce ==
  [][\A p \in PrizeIds : prizes[p].won => prizes'[p] = prizes[p]]_vars

AllowedTransitions ==
  {<<"setup", "countdown">>, <<"countdown", "active">>, <<"active", "paused">>,
   <<"paused", "active">>, <<"setup", "finished">>, <<"countdown", "finished">>,
   <<"active", "finished">>, <<"paused", "finished">>}

\* C7: the status changes only along the allowed transitions.
StatusFollowsTransitions ==
  [][status' # status => <<status, status'>> \in AllowedTransitions]_vars

Settled == ghWrites = {} /\ ghCalls = {}

\* C4: when a pause met one tick in flight at N called numbers and both have
\* settled, calledNumbers has N or N+1 numbers, every prize that is won was won
\* on a stored number and the stored numbers have their prize results.
AtomicPause ==
  (raceBase >= 0 /\ Settled)
    => /\ Len(gs.calledNumbers) \in {raceBase, raceBase + 1}
       /\ \A p \in PrizeIds :
            /\ prizes[p].won => prizes[p].winningNumber \in Range(gs.calledNumbers)
            /\ Winners(gs.calledNumbers) # {} => prizes[p].won

Completed ==
  gs.gameOver /\ Len(gs.calledNumbers) = MaxNumber /\ gs.currentNumber = NoNumber

\* C9: a game that has become active and in which the host presses neither
\* pause nor end eventually is over with every number called and currentNumber
\* cleared.
GameCompletes ==
  [](gs.isActive => <>(Completed \/ ghScript.pressed \cap {"pause", "end"} # {}))

\* C10: the GameHost never has two call ticks awaiting their result.
TicksNotPipelined == Cardinality({k \in ghCalls : k.phase = "sent"}) <= 1

\* The same for a HostControlsProvider tab, whose loop is restarted under a new
\* generation while a call of the old one is awaited.
LoopTicksNotPipelined ==
  \A c \in Clients : Cardinality({k \in calls[c] : k.phase = "sent"}) <= 1

\* The state the runs from "active" start in is reached by the runs from "setup".
LoopStarted ==
  /\ gs = ActiveGameState /\ committed = <<>> /\ ops = {}
  /\ gameActiveRef["tabA"] /\ ~pauseRequestedRef["tabA"] /\ timerGenerationRef["tabA"] = 0
  /\ timers["tabA"] = {[gen |-> 0, ref |-> TRUE]} /\ calls["tabA"] = {}
  /\ countdownTimerRef["tabA"] = [on |-> FALSE, timeLeft |-> 0]
  /\ view["tabA"] = [isActive |-> TRUE, gameOver |-> FALSE]
  /\ ~effectDue["tabA"] /\ ~isProcessing["tabA"] /\ faults = 0

\* C11: until the host presses the button that follows start, the stored countdownTime
\* rises only when start() sets it to the configured duration on a game that is
\* neither active nor counting down; otherwise it only decreases, and no number
\* is appended while the stored state shows the countdown.
CountdownProtocol ==
  [][(\A c \in mounted : script'[c] # <<>>)
       => /\ gs'.countdownTime > gs.countdownTime
               => /\ ~gs.isActive /\ ~gs.isCountdown
                  /\ gs'.countdownTime = CountdownStart /\ gs'.isCountdown /\ ~gs'.isActive
          /\ gs.isCountdown => Len(gs'.calledNumbers) <= Len(gs.calledNumbers)]_vars

ResumeKeepsProgress ==
  [][\A w \in ghWrites :
       (w.kind = "resume" /\ w \notin ghWrites' /\ faults' = faults
          /\ ~w.cl.cg.isActive /\ ~w.cl.cg.gameOver
          /\ ~gs.isActive /\ ~gs.gameOver)
         => /\ gs'.calledNumbers = gs.calledNumbers
            /\ gs'.currentNumber = gs.currentNumber
            /\ gs'.gameOver = gs.gameOver
            /\ prizes' = prizes]_vars

\* ------------------------------------------------------ GameHost.resetGame
\* The prizes after the numbers of called were called one by one.
RECURSIVE PrizesAfter(_)
PrizesAfter(called) ==
  IF called = <<>> THEN [p \in PrizeIds |-> UnwonPrize]
  ELSE LET before == PrizesAfter(SubSeq(called, 1, Len(called) - 1))
       IN [p \in PrizeIds |->
             IF ~before[p].won /\ Winners(called) # {}
             THEN [won |-> TRUE, winners |-> Winners(called),
                   winningNumber |-> called[Len(called)]]
             ELSE before[p]]

\* The sequences of distinct numbers a game can have called.
CalledSequences ==
  UNION {{q \in [1..n -> Numbers] : NoDuplicates(q)} : n \in 0..MaxNumber}

\* The game state endGame leaves once called has been called.
FinishedGameState(called) ==
  [InitialGameState EXCEPT !.gameOver = TRUE, !.calledNumbers = called]

\* A reset patch that leaves the called numbers in place.
ResetPatchKeepsNumbers == [isActive |-> FALSE, isCountdown |-> FALSE, gameOver |-> FALSE,
                           currentNumber |-> NoNumber]

\* The fields resetGame overrides in the game state it writes.
ResetPatch == [isActive |-> FALSE, isCountdown |-> FALSE, gameOver |-> FALSE,
               calledNumbers |-> <<>>, currentNumber |-> NoNumber]

GHOnly == <<hcVars, mounted, script, svcVars>>
NotReset == <<subscription, dashboard, lobby, txn, resume, auxVars>>

\* The host presses Reset and answers the confirm dialog.
resetGame(confirmed) ==
  /\ GHInvoked("reset")
  /\ resetRun = NoReset
  /\ IF confirmed
     THEN /\ intervals' = ClearInterval(intervals, gameInterval)
          /\ gameInterval' = 0
          /\ countdownInterval' = [countdownInterval EXCEPT !.on = FALSE]
          /\ availableNumbers' = Numbers
          /\ resetRun' = [stage |-> "state", value |-> Merge(currentGame, ResetPatch),
                          todo |-> PrizeIds]
     ELSE UNCHANGED <<intervals, gameInterval, countdownInterval, availableNumbers,
                      resetRun>>
  /\ UNCHANGED <<storeVars, currentGame, ghCalls, ghWrites, raceBase, faults, GHOnly, NotReset>>

\* The updateGameState of resetGame: set() stores the reset game state.
ResetStateWrite ==
  /\ resetRun.stage = "state"
  /\ gs' = resetRun.value
  /\ resetRun' = IF resetRun.todo = {} THEN NoReset
                 ELSE [resetRun EXCEPT !.stage = "prizes"]
  /\ UNCHANGED <<status, session, endedAt, prizes, committed, ghVars, faults, GHOnly, NotReset>>

\* firebaseService.resetPrize(gameId, prizeId) for the next prize of the loop.
resetPrize(p) ==
  /\ resetRun.stage = "prizes" /\ p \in resetRun.todo
  /\ prizes' = [prizes EXCEPT ![p] = UnwonPrize]
  /\ resetRun' = IF resetRun.todo = {p} THEN NoReset
                 ELSE [resetRun EXCEPT !.todo = @ \ {p}]
  /\ UNCHANGED <<status, gs, session, endedAt, committed, ghVars, faults, GHOnly, NotReset>>

\* A write of resetGame rejects: the catch shows the error and the handler ends.
ResetFail ==
  /\ resetRun # NoReset
  /\ faults < MaxFaults
  /\ faults' = faults + 1
  /\ resetRun' = NoReset
  /\ UNCHANGED <<storeVars, ghVars, GHOnly, NotReset>>

\* The host presses Reset once, or twice (declining and then confirming, or
\* resetting the game it has just reset).
ResetRuns == {<<"reset">>, <<"reset", "reset">>}

\* A finished game on the host's screen: every number sequence, the prizes it
\* won, the last shown number already cleared or its clear still to come.
InitReset ==
  /\ IdleHC /\ IdleSvc /\ IdleHost
  /\ status = "setup" /\ session = <<>> /\ endedAt = FALSE
  /\ \E called \in CalledSequences :
       /\ gs = FinishedGameState(called)
       /\ committed = called
       /\ prizes = PrizesAfter(called)
       /\ availableNumbers = Numbers \ Range(called)
       /\ ghCalls \in {{}} \cup
             (IF called = <<>> THEN {}
              ELSE {{[id |-> 1, n |-> called[Len(called)], phase |-> "shown"]}})
  /\ currentGame = gs
  /\ gameInterval = 0 /\ intervals = {} /\ countdownInterval = NoCountdown
  /\ ghWrites = {} /\ raceBase = -1
  /\ \E r \in ResetRuns : ghScript = [next |-> r, pressed |-> {"start", "end"}]
  /\ faults = 0

NextReset ==
  \/ \E confirmed \in BOOLEAN : resetGame(confirmed)
  \/ ResetStateWrite
  \/ \E p \in PrizeIds : resetPrize(p)
  \/ ResetFail
  \/ \E k \in ghCalls : clearCurrentNumber(k)
  \/ GHDeliver

SpecReset == InitReset /\ [][NextReset]_vars

\* C14: the step that completes a confirmed reset leaves the stored game in
\* setup (not active, no countdown, not over) with no called number, no current
\* number and every prize unwon without winners; a declined reset changes
\* nothing of the stored game or of the component.
ResetRestoresSetup ==
  [][/\ (resetRun.stage # "none" /\ resetRun'.stage = "none" /\ faults' = faults)
          => /\ ~gs'.isActive /\ ~gs'.isCountdown /\ ~gs'.gameOver
             /\ gs'.calledNumbers = <<>> /\ gs'.currentNumber = NoNumber
             /\ \A p \in PrizeIds : ~prizes'[p].won /\ prizes'[p].winners = {}
     /\ (ghScript' # ghScript /\ resetRun' = resetRun)
          => /\ storeVars' = storeVars
             /\ <<currentGame, availableNumbers, intervals, ghCalls, ghWrites>>' =
                  <<currentGame, availableNumbers, intervals, ghCalls, ghWrites>>]_vars

\* A reset of a game that had called numbers and awarded the prize has
\* completed.
ResetCompleted ==
  /\ "reset" \in ghScript.pressed /\ resetRun = NoReset
  /\ committed # <<>> /\ gs.calledNumbers = <<>> /\ ~gs.gameOver
  /\ \A p \in PrizeIds : ~prizes[p].won
  /\ PrizesAfter(committed)["fullHouse"].won

\* --------------------------------------------------- subscription gating
NotGate == <<resetRun, lobby, txn, resume, auxVars>>

\* The account is deactivated or the subscription end date passes; left is
\* the number of buttons the host had still to press at that moment.
SubscriptionEnds ==
  /\ subscription.valid
  /\ subscription' = [valid |-> FALSE, left |-> Len(ghScript.next)]
  /\ UNCHANGED <<storeVars, ghVars, dashboard, faults, GHOnly, NotGate>>

\* The component renders again: without a valid subscription it returns the
\* restricted page instead of the controls.
Render ==
  /\ dashboard /\ ~subscription.valid
  /\ dashboard' = FALSE
  /\ UNCHANGED <<storeVars, ghVars, subscription, faults, GHOnly, NotGate>>

\* A paused game on the host's screen after called was called.
PausedGameState(called) ==
  [InitialGameState EXCEPT !.calledNumbers = called,
                           !.currentNumber = IF called = <<>> THEN NoNumber
                                             ELSE called[Len(called)]]

\* The controls are on screen with a game in setup (Start) or paused (Resume).
InitGate ==
  /\ IdleHC /\ IdleSvc /\ IdleHost
  /\ status = "setup" /\ session = <<>> /\ endedAt = FALSE
  /\ \/ /\ gs = InitialGameState /\ committed = <<>>
        /\ ghScript = [next |-> <<"start">>, pressed |-> {}]
     \/ /\ \E called \in CalledSequences : gs = PausedGameState(called) /\ committed = called
        /\ ghScript = [next |-> <<"resume">>, pressed |-> {"start", "pause"}]
  /\ prizes = PrizesAfter(committed)
  /\ currentGame = gs
  /\ availableNumbers = Numbers \ Range(committed)
  /\ gameInterval = 0 /\ intervals = {} /\ countdownInterval = NoCountdown
  /\ ghCalls = {} /\ ghWrites = {} /\ raceBase = -1
  /\ faults = 0

NextGate ==
  \/ SubscriptionEnds
  \/ Render
  \/ dashboard /\ startCountdown
  \/ dashboard /\ GHresumeGame
  \/ CountdownTick
  \/ \E w \in ghWrites : GHWrite(w)
  \/ \E w \in ghWrites : GHWriteFail(w)
  \/ \E i \in intervals : \E n \in Numbers : IntervalTick(i, n)
  \/ \E i \in intervals : IntervalEnd(i)
  \/ \E k \in ghCalls : GHCallCommit(k)
  \/ \E k \in ghCalls : GHCallFail(k)
  \/ \E k \in ghCalls : GHCallReturn(k)
  \/ \E k \in ghCalls : clearCurrentNumber(k)
  \/ GHDeliver

SpecGate == InitGate /\ [][NextGate]_vars

\* C15: when the account was inactive or the subscription had ended before the
\* host pressed Start or Resume, the press is refused: the stored game is
\* neither counting down nor active and the component runs no countdown and
\* no call loop.
RefusedWithoutSubscription ==
  (~subscription.valid /\ Len(ghScript.next) < subscription.left)
    => /\ ~gs.isActive /\ ~gs.isCountdown
       /\ intervals = {} /\ ~countdownInterval.on

\* ------------------------------------------ game creation and settings
\* The text of the ticket count field: EmptyText or the number its digits spell.
EmptyText == -1
NaN == -2
TicketTexts == {EmptyText} \cup (0..(TicketLimit + 1))

\* parseInt(text)
ParseInt(text) == IF text = EmptyText THEN NaN ELSE text

\* n || 100
OrDefault(n) == IF n = NaN \/ n = 0 THEN DefaultTickets ELSE n

Forms == [maxTickets : TicketTexts, prizes : SUBSET PrizeIds,
          phone : BOOLEAN, ticketSet : BOOLEAN]

\* The game of the host before the handler runs, and the one createGame adds.
OldGame == [id |-> 1, maxTickets |-> DefaultTickets, prizes |-> PrizeIds]
NewGameId == 2

NotLobby == <<storeVars, ghVars, GHOnly, resetRun, subscription, dashboard, txn, resume,
             auxVars>>

\* A call to the backend succeeds, or fails within the fault budget.
Answers(ok) == IF ok THEN faults' = faults ELSE faults < MaxFaults /\ faults' = faults + 1

\* The Create button of GameHost.tsx is enabled.
CreateButtonEnabled(f) == f.phone /\ f.maxTickets # EmptyText /\ f.prizes # {}

\* GameHost.tsx createNewGame, up to its first await.
createNewGame ==
  /\ lobby.step = "idle" /\ lobby.path = "tsx"
  /\ CreateButtonEnabled(lobby.form)
  /\ lobby' =
       IF ~subscription.valid THEN [lobby EXCEPT !.step = "refused"]
       ELSE [lobby EXCEPT
               !.cfg = [maxTickets |-> OrDefault(ParseInt(lobby.form.maxTickets)),
                        prizes |-> lobby.form.prizes],
               !.step = IF lobby.scene = "finished" THEN "delete" ELSE "settings"]
  /\ UNCHANGED <<faults, NotLobby>>

\* The validation of createNewGame in the GameHost of part_001.
GHFormValid(f) ==
  /\ f.phone /\ f.ticketSet /\ f.prizes # {}
  /\ ~(f.maxTickets < 1 \/ f.maxTickets > TicketLimit)

\* createNewGame of part_001, up to its first await.
GHcreateNewGame ==
  /\ lobby.step = "idle" /\ lobby.path = "host"
  /\ lobby' =
       IF subscription.valid /\ GHFormValid(lobby.form)
       THEN [lobby EXCEPT !.cfg = [maxTickets |-> lobby.form.maxTickets,
                                   prizes |-> lobby.form.prizes],
                          !.step = "create"]
       ELSE [lobby EXCEPT !.step = "refused"]
  /\ UNCHANGED <<faults, NotLobby>>

\* GameHost.tsx updateGameSettings, up to its first await.
updateGameSettings ==
  /\ lobby.step = "idle" /\ lobby.path = "update"
  /\ lobby.scene = "setup" /\ lobby.form.maxTickets # EmptyText
  /\ LET n == ParseInt(lobby.form.maxTickets)
     IN lobby' =
          IF n = NaN \/ n < 1 \/ lobby.form.prizes = {}
          THEN [lobby EXCEPT !.step = "refused"]
          ELSE [lobby EXCEPT !.cfg = [maxTickets |-> n, prizes |-> lobby.form.prizes],
                             !.step = "update"]
  /\ UNCHANGED <<faults, NotLobby>>

\* deleteGame of the finished game whose winners are on screen; an error is
\* logged and creation goes on.
deleteGame(ok) ==
  /\ lobby.step = "delete"
  /\ Answers(ok)
  /\ lobby' = [lobby EXCEPT !.games = IF ok THEN @ \ {OldGame} ELSE @,
                            !.step = "settings"]
  /\ UNCHANGED NotLobby

\* saveHostSettings; savePreviousSettings of part_001 swallows its error.
saveHostSettings(ok) ==
  /\ lobby.step = "settings"
  /\ Answers(ok)
  /\ lobby' = [lobby EXCEPT
       !.settings = IF ok THEN lobby.cfg ELSE @,
       !.step = IF lobby.path = "tsx" THEN (IF ok THEN "create" ELSE "failed")
                ELSE IF lobby.path = "host" THEN "done"
                ELSE (IF ok THEN "done" ELSE "failed")]
  /\ UNCHANGED NotLobby

AfterCreate == IF lobby.path = "host" THEN "settings" ELSE "done"

\* createGame: the insert of the game row.
InsertGame(ok) ==
  /\ lobby.step = "create"
  /\ Answers(ok)
  /\ lobby' = [lobby EXCEPT
       !.games = IF ok THEN @ \cup {[id |-> NewGameId,
                                      maxTickets |-> OrDefault(lobby.cfg.maxTickets),
                                      prizes |-> {}]}
                 ELSE @,
       !.step = IF ~ok THEN "failed"
                ELSE IF lobby.cfg.prizes # {} THEN "prizes" ELSE AfterCreate]
  /\ UNCHANGED NotLobby

\* createGame: the insert of the prizes; its error is only logged.
InsertPrizes(ok) ==
  /\ lobby.step = "prizes"
  /\ Answers(ok)
  /\ lobby' = [lobby EXCEPT
       !.games = IF ok THEN {IF g.id = NewGameId THEN [g EXCEPT !.prizes = lobby.cfg.prizes]
                             ELSE g : g \in @}
                 ELSE @,
       !.step = AfterCreate]
  /\ UNCHANGED NotLobby

\* updateGameData(gameId, {maxTickets, hostPhone})
updateGameData(ok) ==
  /\ lobby.step = "update"
  /\ Answers(ok)
  /\ lobby' = [lobby EXCEPT
       !.games = IF ok THEN {[g EXCEPT !.maxTickets = lobby.cfg.maxTickets] : g \in @}
                 ELSE @,
       !.step = IF ok THEN "settings" ELSE "failed"]
  /\ UNCHANGED NotLobby

\* The host has filled the form and is about to press Create (either
\* component) or Update; no game, a finished game whose winners are shown, or
\* a game in setup exists.
InitCreate ==
  /\ CreatedGame /\ IdleHC /\ IdleSvc
  /\ currentGame = InitialGameState /\ availableNumbers = Numbers
  /\ gameInterval = 0 /\ intervals = {} /\ countdownInterval = NoCountdown
  /\ ghCalls = {} /\ ghWrites = {} /\ raceBase = -1
  /\ ghScript = [next |-> <<>>, pressed |-> {}]
  /\ resetRun = NoReset /\ dashboard = TRUE /\ txn = IdleTxn /\ resume = IdleResume
  /\ IdleAux
  /\ subscription \in {ValidSubscription, [valid |-> FALSE, left |-> 0]}
  /\ \E f \in Forms, scene \in {"none", "finished", "setup"},
        path \in {"tsx", "host", "update"} :
       /\ path = "host" => f.maxTickets # EmptyText
       /\ path = "update" => scene = "setup"
       /\ lobby = [IdleLobby EXCEPT !.form = f, !.scene = scene, !.path = path,
                                    !.games = IF scene = "none" THEN {} ELSE {OldGame}]
  /\ faults = 0

NextCreate ==
  \/ createNewGame
  \/ GHcreateNewGame
  \/ updateGameSettings
  \/ \E ok \in BOOLEAN : deleteGame(ok)
  \/ \E ok \in BOOLEAN : saveHostSettings(ok)
  \/ \E ok \in BOOLEAN : InsertGame(ok)
  \/ \E ok \in BOOLEAN : InsertPrizes(ok)
  \/ \E ok \in BOOLEAN : updateGameData(ok)

SpecCreate == InitCreate /\ [][NextCreate]_vars

\* C16: every ticket count that reaches the stored games or the stored host
\* settings lies in 1..TicketLimit, and stored settings name at least one
\* prize, whichever handler stored them.
StoredConfigValid ==
  /\ \A g \in lobby.games : g.maxTickets \in 1..TicketLimit
  /\ lobby.settings # NoSettings
       => lobby.settings.maxTickets \in 1..TicketLimit /\ lobby.settings.prizes # {}

\* ------------------------------------------ FirebaseCore.safeTransactionUpdate
\* The largest retries argument explored (the default is 3).
MaxRetries == 3

\* The keys of the stored object and of the updates; a value of an update may
\* be undefined.
Keys == {"a", "b"}
Undefined == -1
Objects(values) == UNION {[K -> values] : K \in SUBSET Keys}

\* removeUndefinedValues(updates) for a flat object.
removeUndefinedValues(obj) ==
  [k \in {j \in DOMAIN obj : obj[j] # Undefined} |-> obj[k]]

\* { ...current, ...updates } with the keys of both.
Spread(current, updates) ==
  [k \in DOMAIN current \cup DOMAIN updates |->
     IF k \in DOMAIN updates THEN updates[k] ELSE current[k]]

\* A catch that gives up one attempt too late.
LastAttemptLate(attempt, retries) == attempt = retries + 1

\* attempt === retries
LastAttempt(attempt, retries) == attempt = retries

\* Math.pow(2, attempt) * 100
Backoff(attempt) == (2 ^ attempt) * 100

NotTxn == <<storeVars, ghVars, GHOnly, resetRun, subscription, dashboard, lobby, resume,
           auxVars,
           faults>>

\* One pass of the loop body: runTransaction commits the merge, or it throws
\* (the path holds null, the transaction is aborted or the network fails) and
\* the catch raises or starts the backoff.
TxnAttempt(ok) ==
  /\ txn.status = "trying"
  /\ ok => txn.data.exists
  /\ txn' =
       IF ok
       THEN [txn EXCEPT !.status = "returned",
               !.data = [exists |-> TRUE,
                         obj |-> Spread(txn.data.obj, removeUndefinedValues(txn.updates))]]
       ELSE IF LastAttempt(txn.attempt, txn.retries)
            THEN [txn EXCEPT !.status = "raised"]
            ELSE [txn EXCEPT !.status = "waiting", !.delay = Backoff(txn.attempt)]
  /\ UNCHANGED NotTxn

\* The backoff timer fires and the loop goes to its next attempt.
TxnBackoffElapsed ==
  /\ txn.status = "waiting"
  /\ txn' = [txn EXCEPT !.status = "trying", !.attempt = @ + 1]
  /\ UNCHANGED NotTxn

\* safeTransactionUpdate(path, updates, retries) has entered its loop: every
\* retries from 1 up, every flat updates object, the path holding an object or
\* nothing.
InitTxn ==
  /\ CreatedGame /\ IdleHC /\ IdleSvc
  /\ currentGame = InitialGameState /\ availableNumbers = Numbers
  /\ gameInterval = 0 /\ intervals = {} /\ countdownInterval = NoCountdown
  /\ ghCalls = {} /\ ghWrites = {} /\ raceBase = -1
  /\ ghScript = [next |-> <<>>, pressed |-> {}]
  /\ resetRun = NoReset /\ dashboard = TRUE /\ subscription = ValidSubscription
  /\ lobby = IdleLobby /\ resume = IdleResume /\ IdleAux
  /\ faults = 0
  /\ \E r \in 1..MaxRetries, u \in Objects({1, Undefined}),
        d \in {Null} \cup {[exists |-> TRUE, obj |-> o] : o \in Objects({0})} :
       txn = [status |-> "trying", retries |-> r, attempt |-> 1, delay |-> 0,
              updates |-> u, data0 |-> d, data |-> d]

NextTxn ==
  \/ \E ok \in BOOLEAN : TxnAttempt(ok)
  \/ TxnBackoffElapsed

SpecTxn == InitTxn /\ [][NextTxn]_vars

CreationAllOrNothing ==
  (lobby.path \in {"tsx", "host"} /\ lobby.step \in {"done", "failed"})
    => LET found == IF lobby.scene = "none" THEN {} ELSE {OldGame}
           created == [id |-> NewGameId, maxTickets |-> lobby.cfg.maxTickets,
                       prizes |-> lobby.cfg.prizes]
           replaced == lobby.path = "tsx" /\ lobby.scene = "finished"
       IN \/ lobby.games = found
          \/ lobby.games = (IF replaced THEN {} ELSE found) \cup {created}

\* C19: when the call of a tick has failed and its callback continues, no new
\* call is made in that step; if the loop's generation is current and the tab
\* holds the game active and not paused it sets the timer of the next tick,
\* and otherwise it sets none.
TickFailureReschedules ==
  [][\A c \in Clients : \A k \in calls[c] :
       (k.phase = "err" /\ k \notin calls'[c] /\ calls'[c] \subseteq calls[c])
         => /\ calls'[c] = calls[c] \ {k}
            /\ IF /\ k.gen = timerGenerationRef[c]
                  /\ gameActiveRef[c] /\ ~pauseRequestedRef[c]
               THEN /\ [gen |-> k.gen, ref |-> TRUE] \in timers'[c]
                    /\ [gen |-> k.gen, ref |-> TRUE] \notin timers[c]
               ELSE timers'[c] = timers[c]]_vars

\* With no button pressed, the one tab's call has failed and the timer of its
\* next tick is set.
RescheduledAfterFailure ==
  /\ mounted = {"tabA"} /\ script["tabA"] = <<"end">>
  /\ faults = 1 /\ calls["tabA"] = {}
  /\ timers["tabA"] = {[gen |-> 0, ref |-> TRUE]}



\* ------------------------------------------------- GameHost: auto-resume
NotResume == <<resetRun, subscription, dashboard, lobby, txn, auxVars>>

\* Games one host has at a time in the runs explored; createdAt is 1..MaxGames.
MaxGames == 2
NoGame == [createdAt |-> 0, gameState |-> InitialGameState]

\* A game whose loop is running, as the host left it.
RunningGameState(called) == [InitialGameState EXCEPT !.isActive = TRUE, !.calledNumbers = called]

\* A game whose countdown has left seconds to go.
CountdownGameState(left) ==
  [InitialGameState EXCEPT !.isCountdown = TRUE, !.countdownTime = left]

\* The game states the store can hold when the host comes back.
StoredGameStates ==
  {InitialGameState}
    \cup {CountdownGameState(left) : left \in 1..CountdownStart}
    \cup {RunningGameState(called) : called \in CalledSequences}
    \cup {PausedGameState(called) : called \in CalledSequences \ {<<>>}}
    \cup {FinishedGameState(called) : called \in CalledSequences}

\* What getHostGames can return: games with distinct creation times.
HostGames ==
  {{[createdAt |-> t, gameState |-> state[t]] : t \in times} :
     times \in SUBSET (1..MaxGames), state \in [1..MaxGames -> StoredGameStates]}

\* games.sort(newest first).find(test)
FindNewest(hits) ==
  IF hits = {} THEN NoGame
  ELSE CHOOSE g \in hits : \A h \in hits : h.createdAt <= g.createdAt

findActiveOrRecentGame(games, fourHoursAgo) ==
  LET IsRunning(g) == g.gameState.isActive \/ g.gameState.isCountdown
      hasProgress(g) == Len(g.gameState.calledNumbers) > 0
      IsRecentGame(g) ==
        (g.gameState.gameOver \/ hasProgress(g)) /\ g.createdAt > fourHoursAgo
      IsPausedGame(g) == hasProgress(g) /\ ~g.gameState.gameOver
      activeGame == FindNewest({g \in games : IsRunning(g)})
      recentGame == FindNewest({g \in games : IsRecentGame(g)})
      pausedGame == FindNewest({g \in games : IsPausedGame(g)})
  IN IF activeGame # NoGame THEN activeGame
     ELSE IF recentGame # NoGame THEN recentGame
     ELSE pausedGame

\* autoResumeFromGame(game): the game becomes the current one; for an active
\* game the loop is to start a second later, any other game is only shown.
autoResumeFromGame(game) ==
  /\ currentGame' = game.gameState
  /\ availableNumbers' = Numbers \ Range(game.gameState.calledNumbers)
  /\ resume' = [resume EXCEPT
                  !.picked = game.createdAt,
                  !.stage = IF game.gameState.isActive /\ ~game.gameState.gameOver
                            THEN "timer" ELSE "done"]

\* The mount effect: loadHostGames fetches the host's games and resumes the
\* one findActiveOrRecentGame picks; a failed fetch ends auto-resume.
loadHostGames(ok) ==
  /\ resume.stage = "mount"
  /\ subscription.valid
  /\ Answers(ok)
  /\ LET game == findActiveOrRecentGame(resume.games, resume.fourHoursAgo)
     IN IF ok /\ game # NoGame
        THEN autoResumeFromGame(game)
        ELSE /\ resume' = [resume EXCEPT !.stage = "done"]
             /\ UNCHANGED <<currentGame, availableNumbers>>
  /\ UNCHANGED <<storeVars, gameInterval, intervals, countdownInterval, ghCalls,
                 ghWrites, raceBase, ghScript, GHOnly, NotResume>>

\* The timeout of autoResumeFromGame calls the startNumberCalling its render
\* made. That render holds no game yet (the call returns at once) or, where
\* each state update renders on its own and the effect ran again, the picked
\* game with the numbers 1..90 all available.
AutoResumeTimer(rendered) ==
  /\ resume.stage = "timer"
  /\ resume' = [resume EXCEPT !.stage = "done"]
  /\ IF rendered
     THEN startNumberCalling([avail |-> Numbers, cg |-> currentGame, h |-> gameInterval])
     ELSE UNCHANGED <<intervals, gameInterval>>
  /\ UNCHANGED <<storeVars, currentGame, availableNumbers, countdownInterval, ghCalls,
                 ghWrites, raceBase, ghScript, faults, GHOnly, NotResume>>

\* The host opens the dashboard: the store holds the games, nothing runs yet.
InitResume ==
  /\ IdleHC /\ IdleSvc
  /\ resetRun = NoReset /\ subscription = ValidSubscription /\ dashboard = TRUE
  /\ lobby = IdleLobby /\ txn = IdleTxn /\ IdleAux
  /\ \E games \in HostGames, fourHoursAgo \in 0..MaxGames :
       /\ resume = [games |-> games, fourHoursAgo |-> fourHoursAgo,
                    picked |-> 0, stage |-> "mount"]
       /\ gs = findActiveOrRecentGame(games, fourHoursAgo).gameState
  /\ status = "setup" /\ session = <<>> /\ endedAt = FALSE
  /\ committed = gs.calledNumbers
  /\ prizes = PrizesAfter(committed)
  /\ currentGame = InitialGameState
  /\ availableNumbers = Numbers
  /\ gameInterval = 0 /\ intervals = {} /\ countdownInterval = NoCountdown
  /\ ghCalls = {} /\ ghWrites = {} /\ raceBase = -1
  /\ ghScript = [next |-> <<>>, pressed |-> {}]
  /\ faults = 0

NextResume ==
  \/ \E ok \in BOOLEAN : loadHostGames(ok)
  \/ \E rendered \in BOOLEAN : AutoResumeTimer(rendered)
  \/ \E i \in intervals : \E n \in Numbers : IntervalTick(i, n)
  \/ \E k \in ghCalls : GHCallCommit(k)
  \/ \E k \in ghCalls : GHCallFail(k)
  \/ \E k \in ghCalls : GHCallReturn(k)
  \/ \E k \in ghCalls : clearCurrentNumber(k)
  \/ GHDeliver

SpecResume == InitResume /\ [][NextResume]_vars

\* C20: when the host's games have loaded at mount, a game that is active or
\* in countdown is picked if there is one, and otherwise a recent finished
\* game if there is one; the stored game is left as it was; a picked game in
\* countdown has its countdown running locally, a picked active game gets
\* its call loop (when the one-second timer fires), and a finished game gets
\* no loop.
AutoResumeDrives ==
  [][/\ (resume.stage = "mount" /\ resume'.stage # "mount" /\ faults' = faults) =>
          LET Running(g) == g.gameState.isActive \/ g.gameState.isCountdown
              RecentFinished(g) ==
                g.gameState.gameOver /\ g.createdAt > resume.fourHoursAgo
              picked == currentGame'
          IN /\ storeVars' = storeVars
             /\ (\E g \in resume.games : Running(g)) =>
                  resume'.picked # 0 /\ (picked.isActive \/ picked.isCountdown)
             /\ ((\A g \in resume.games : ~Running(g))
                   /\ (\E g \in resume.games : RecentFinished(g))) => resume'.picked # 0
             /\ (resume'.picked # 0 /\ picked.isCountdown) => countdownInterval'.on
             /\ (resume'.picked # 0 /\ picked.isActive /\ ~picked.gameOver) =>
                  resume'.stage = "timer"
             /\ (resume'.picked # 0 /\ picked.gameOver) =>
                  resume'.stage = "done" /\ intervals' = {} /\ ~countdownInterval'.on
     /\ (resume.stage = "timer" /\ resume'.stage # "timer") =>
          intervals' # {} /\ storeVars' = storeVars]_vars

\* ------------------------------------- the game is deleted under its host
\* The games row is gone (deleteGame from another session): status stands
\* for the missing row.
Deleted == "deleted"

GameRowDeleted ==
  /\ status # Deleted
  /\ status' = Deleted
  /\ UNCHANGED <<gs, session, endedAt, prizes, committed, hcVars, envVars, faults>>

\* gameData becomes null in tab c: GameHost leaves the live view for the
\* create view and the HostControlsProvider of the live view unmounts; its
\* cleanup runs clearAllTimers.
GameDataNull(c) ==
  /\ c \in mounted
  /\ status = Deleted
  /\ mounted' = mounted \ {c}
  /\ timers' = [timers EXCEPT ![c] = ClearGameTimer(@)]
  /\ countdownTimerRef' = [countdownTimerRef EXCEPT ![c].on = FALSE]
  /\ gameActiveRef' = [gameActiveRef EXCEPT ![c] = FALSE]
  /\ UNCHANGED <<storeVars, pauseRequestedRef, timerGenerationRef, isProcessing, thrown, calls,
                 view, effectDue, ops, svcVars, ghVars, hostVars, script, faults>>

\* updateGameState finds no row: getGameData returns null and it throws.
OpReadMissing(op) ==
  /\ op \in ops /\ op.phase = "read"
  /\ status = Deleted
  /\ OpSettled(op, FALSE)
  /\ UNCHANGED <<storeVars, envVars, faults>>

\* The row went after the read: the update matches no row and reports no
\* error, so the caller continues as after a write.
OpWriteMissing(op) ==
  /\ op \in ops /\ op.phase = "write"
  /\ status = Deleted
  /\ OpSettled(op, TRUE)
  /\ UNCHANGED <<storeVars, envVars, faults>>

\* call_next_number for a game that is gone: nothing is called; the caller
\* is told to stop or gets an error.
CallMissing(c, k) ==
  /\ k \in calls[c] /\ k.phase = "sent"
  /\ status = Deleted
  /\ \E res \in {"stop", "err"} :
       calls' = [calls EXCEPT ![c] = (@ \ {k}) \cup {[k EXCEPT !.phase = res]}]
  /\ UNCHANGED <<storeVars, gameActiveRef, pauseRequestedRef, timerGenerationRef,
                 isProcessing, thrown, timers, countdownTimerRef, view, effectDue, ops,
                 envVars, faults>>

\* The host's tab drives the game: its countdown has seconds to go, or its
\* call loop waits for its next timer.
InitDelete ==
  /\ IdleSvc /\ IdleGH
  /\ script = Idle
  /\ mounted = {"tabA"}
  /\ status = "setup"
  /\ session = [i \in 1..MaxNumber |-> i]
  /\ endedAt = FALSE
  /\ prizes = [p \in PrizeIds |-> UnwonPrize]
  /\ committed = <<>>
  /\ pauseRequestedRef = [c \in Clients |-> FALSE]
  /\ timerGenerationRef = [c \in Clients |-> 0]
  /\ isProcessing = [c \in Clients |-> FALSE]
  /\ thrown = [c \in Clients |-> "none"]
  /\ calls = [c \in Clients |-> {}]
  /\ effectDue = [c \in Clients |-> FALSE]
  /\ ops = {}
  /\ faults = 0
  /\ \/ \E left \in 1..CountdownStart :
          /\ gs = CountdownGameState(left)
          /\ countdownTimerRef = [c \in Clients |->
                IF c = "tabA" THEN [on |-> TRUE, timeLeft |-> left]
                ELSE [on |-> FALSE, timeLeft |-> 0]]
          /\ gameActiveRef = [c \in Clients |-> FALSE]
          /\ timers = [c \in Clients |-> {}]
          /\ view = [c \in Clients |-> [isActive |-> FALSE, gameOver |-> FALSE]]
     \/ /\ gs = ActiveGameState
        /\ countdownTimerRef = [c \in Clients |-> [on |-> FALSE, timeLeft |-> 0]]
        /\ gameActiveRef = [c \in Clients |-> c = "tabA"]
        /\ timers = [c \in Clients |-> IF c = "tabA" THEN {[gen |-> 0, ref |-> TRUE]} ELSE {}]
        /\ view = [c \in Clients |-> [isActive |-> c = "tabA", gameOver |-> FALSE]]

NextDelete ==
  \/ GameRowDeleted
  \/ \E c \in Clients : GameDataNull(c)
  \/ \E c \in Clients : CountdownFire(c)
  \/ \E op \in ops : status # Deleted /\ OpRead(op)
  \/ \E op \in ops : status # Deleted /\ OpWrite(op)
  \/ \E op \in ops : OpFail(op)
  \/ \E op \in ops : OpReadMissing(op)
  \/ \E op \in ops : OpWriteMissing(op)
  \/ \E c \in Clients : \E t \in timers[c] : TimerFire(c, t)
  \/ \E c \in Clients : \E k \in calls[c] : status # Deleted /\ CallCommit(c, k)
  \/ \E c \in Clients : \E k \in calls[c] : CallFail(c, k)
  \/ \E c \in Clients : \E k \in calls[c] : CallMissing(c, k)
  \/ \E c \in Clients : \E k \in calls[c] : CallReturn(c, k)
  \/ \E c \in Clients : status # Deleted /\ Deliver(c)

SpecDelete == InitDelete /\ [][NextDelete]_vars

\* C21: once the game is gone and the host's tab has left the live view,
\* the tab holds no call timer and no countdown, and it issues no further
\* call for the game.
GameNotFoundTearsDown ==
  [][\A c \in Clients :
       (status' = Deleted /\ c \notin mounted') =>
          /\ timers'[c] = {}
          /\ ~countdownTimerRef'[c].on
          /\ \A k \in calls'[c] : k.phase = "sent" => k \in calls[c]]_vars

\* ------------------------------------------------ the stored draw sequence
\* The statuses of a session under way: the countdown has started and the
\* game has not finished.
SessionStatuses == {"countdown", "active", "paused"}

\* C22: while the session is under way (from the start of the countdown until
\* the game is finished or reset) a stored session_numbers is not changed by
\* any step other than one that starts a countdown.
SessionNumbersFixed ==
  [][(/\ status \in SessionStatuses /\ status' \in SessionStatuses
      /\ session # <<>>
      /\ ~(status' = "countdown" /\ gs'.countdownTime = CountdownStart))
       => session' = session]_vars

\* ----------------------------------------------------- the stored phase
\* C23: the stored game is in one phase: isActive and isCountdown are not
\* both set, gameOver is set with neither, a paused game is not active and a
\* finished game is over.
ValidPhase ==
  /\ ~(gs.isActive /\ gs.isCountdown)
  /\ gs.gameOver => ~gs.isActive /\ ~gs.isCountdown
  /\ status = "paused" => ~gs.isActive
  /\ status = "finished" => gs.gameOver

\* ------------------------------------------------ generateNumberSequence
\* Length of the array shuffled step by step (90 in the source).
ShuffleLen == 5

\* Nothing else runs while a sequence is generated.
NotShuffle == <<storeVars, hcVars, mounted, script, svcVars, ghVars, resetRun, subscription,
               dashboard, lobby, txn, resume, audio, auth, locks, playVars, faults>>

\* One pass of the Fisher-Yates loop: numbers[i] and numbers[j] are swapped
\* for the j that Math.floor(Math.random() * (i + 1)) gives.
ShuffleStep(j) ==
  /\ shuffle.i > 1
  /\ j \in 1..shuffle.i
  /\ shuffle' = [numbers |-> Swap(shuffle.numbers, shuffle.i, j), i |-> shuffle.i - 1]
  /\ UNCHANGED NotShuffle

\* The loop is over and the array is returned.
ShuffleReturn ==
  /\ shuffle.i = 1
  /\ shuffle' = [shuffle EXCEPT !.i = 0]
  /\ UNCHANGED NotShuffle

\* Array.from({length}, (_, i) => i + 1), the loop about to start.
InitShuffle ==
  /\ CreatedGame /\ IdleHC /\ IdleSvc /\ IdleGameHost /\ IdleDashboard
  /\ audio = IdleAudio /\ auth = IdleAuth /\ locks = IdleLocks /\ IdlePlay
  /\ shuffle = [numbers |-> [n \in 1..ShuffleLen |-> n], i |-> ShuffleLen]
  /\ faults = 0

NextShuffle ==
  \/ \E j \in 1..ShuffleLen : ShuffleStep(j)
  \/ ShuffleReturn

SpecShuffle == InitShuffle /\ [][NextShuffle]_vars

\* s holds every value of 1..n exactly once.
IsPermutation(s, n) ==
  /\ Len(s) = n
  /\ \A v \in 1..n : Cardinality({k \in 1..Len(s) : s[k] = v}) = 1

\* C24: whatever the random choices, the returned sequence has the full
\* length and holds every number exactly once; so does every sequence the
\* service can store.
FullPermutation ==
  /\ shuffle.i = 0 => IsPermutation(shuffle.numbers, ShuffleLen)
  /\ \A numbers \in generateNumberSequence : IsPermutation(numbers, MaxNumber)

\* A sequence has been returned with its last number moved to the front.
ShuffledReturned ==
  shuffle.i = 0 /\ shuffle.numbers # <<>> /\ shuffle.numbers[1] = ShuffleLen

\* ---------------------------------------------------------- AudioManager
\* Announcements of one kind counted in a run.
MaxAnnouncements == 2

NotAudio == <<storeVars, hcVars, mounted, script, svcVars, ghVars, resetRun, subscription,
             dashboard, lobby, txn, resume, shuffle, auth, locks, playVars, faults>>

\* The reset effect clears the refs: no prize is won, something has been
\* announced and the game is not over (pendingGameEnd is never set).
ResetEffect(wonPrizes, over, announced, announcedOver) ==
  wonPrizes = {} /\ (announced # {} \/ announcedOver) /\ ~over

\* The stored game is pushed and the component renders with it: the prize
\* effect, the game over effect (when gameOver changed) and the reset effect
\* run in this order.
AudioRender ==
  LET wonPrizes == {p \in PrizeIds : prizes[p].won}
      newPrizes == wonPrizes \ audio.announcedPrizes
      announced1 == audio.announcedPrizes \cup newPrizes
      overEffect == ~audio.rendered \/ audio.gameOver # gs.gameOver
      newOver == overEffect /\ gs.gameOver /\ ~audio.announcedGameOver
      over1 == audio.announcedGameOver \/ newOver
      reset == ResetEffect(wonPrizes, gs.gameOver, announced1, over1)
  IN /\ \A a \in Announcements : audio.said[a] < MaxAnnouncements
     /\ audio' = [announcedPrizes |-> IF reset THEN {} ELSE announced1,
                  announcedGameOver |-> IF reset THEN FALSE ELSE over1,
                  rendered |-> TRUE,
                  gameOver |-> gs.gameOver,
                  said |-> [a \in Announcements |->
                              IF a \in newPrizes \/ (a = "gameOver" /\ newOver)
                              THEN audio.said[a] + 1 ELSE audio.said[a]]]
     /\ UNCHANGED NotAudio

\* The countdown of a game has started; the service operations that drive
\* the countdown, the calls, the prizes and the end are invoked in any order,
\* the activation only out of the countdown.
InitAnnounce ==
  /\ IdleHC /\ IdleSvc /\ IdleGH
  /\ status = "countdown"
  /\ gs = CountdownGameState(CountdownStart)
  /\ session = [i \in 1..MaxNumber |-> i]
  /\ endedAt = FALSE
  /\ prizes = [p \in PrizeIds |-> UnwonPrize]
  /\ committed = <<>>
  /\ faults = 0

NextAnnounce ==
  \/ \E t \in 1..(CountdownStart - 1) : updateCountdownTime(t)
  \/ \E op \in svcOps : CountdownWrite(op)
  \/ status = "countdown" /\ activateGameAfterCountdown
  \/ callNextNumberAndContinue
  \/ \E p \in PrizeIds : PrizeCheck(p)
  \/ \E op \in svcOps : updatePrize(op)
  \/ SvcEndGame
  \/ \E op \in svcOps : EndWrite(op)
  \/ AudioRender

SpecAnnounce == InitAnnounce /\ [][NextAnnounce]_vars

\* C25: however often the stored game is pushed to the announcer, each prize
\* and the game over are announced at most once.
AnnouncedOnce == \A a \in Announcements : audio.said[a] <= 1

\* ---------------------------------------------------------------- useAuth
NotAuth == <<storeVars, hcVars, mounted, script, svcVars, ghVars, resetRun, subscription,
            dashboard, lobby, txn, resume, shuffle, audio, locks, playVars, faults>>

\* What the stored session says of its user: no session, or the role in the
\* user's metadata ("norole": a session whose user has no role metadata).
SessionRoles == {"none", "admin", "host", "norole"}

\* The event the auth library sends the listener after it subscribes.
AuthEvents == {"none", "INITIAL_SESSION", "SIGNED_IN"}

\* setState of the hook.
SetAuthState(a, role, error) ==
  [a EXCEPT !.userRole = role, !.loading = FALSE, !.initialized = TRUE, !.error = error]

\* getUserDataFromSession: the record of the role's table, or null.
getUserDataFromSession(a) ==
  IF a.sessionRole \in {"admin", "host"} /\ a.record THEN a.sessionRole ELSE "none"

\* getSession answers before its timeout: without a session the hook is
\* initialized; with one the profile lookup starts.
GetSessionResolves ==
  /\ auth.stage = "session"
  /\ auth' = IF auth.sessionRole = "none"
             THEN [SetAuthState(auth, "none", "none") EXCEPT !.stage = "done"]
             ELSE [auth EXCEPT !.stage = "profile"]
  /\ UNCHANGED NotAuth

\* The ten seconds pass first: the hook goes on as without a session.
GetSessionTimesOut ==
  /\ auth.stage = "session"
  /\ auth' = [SetAuthState(auth, "none", "none") EXCEPT !.stage = "done"]
  /\ UNCHANGED NotAuth

\* initializeAuth after its profile lookup: the state is set when a record
\* with a role came back.
InitProfileLoaded ==
  /\ auth.stage = "profile"
  /\ LET role == getUserDataFromSession(auth)
     IN auth' = IF role # "none"
                THEN [SetAuthState(auth, role, "none") EXCEPT !.stage = "done"]
                ELSE [auth EXCEPT !.stage = "done"]
  /\ UNCHANGED NotAuth

\* The listener of onAuthStateChange receives the event.
AuthEvent ==
  /\ auth.stage # "idle"
  /\ auth.event # "none"
  /\ auth' =
       IF auth.event = "SIGNED_IN" /\ auth.sessionRole # "none"
       THEN [auth EXCEPT !.event = "none", !.listener = "timer"]
       ELSE IF auth.sessionRole = "none"
       THEN [SetAuthState(auth, "none", "none") EXCEPT !.event = "none"]
       ELSE [auth EXCEPT !.event = "none"]
  /\ UNCHANGED NotAuth

\* The listener's timeout callback after its wait and its profile lookup.
ListenerProfileLoaded ==
  /\ auth.listener = "timer"
  /\ LET role == getUserDataFromSession(auth)
     IN auth' = [SetAuthState(auth, role, IF role # "none" THEN "none" ELSE "notfound")
                   EXCEPT !.listener = "done"]
  /\ UNCHANGED NotAuth

\* The hook mounts: getSession is under way and the listener is subscribed.
InitAuth ==
  /\ CreatedGame /\ IdleHC /\ IdleSvc /\ IdleGameHost /\ IdleDashboard
  /\ shuffle = IdleShuffle /\ audio = IdleAudio /\ locks = IdleLocks /\ IdlePlay
  /\ \E role \in SessionRoles, record \in BOOLEAN, event \in AuthEvents :
       auth = [IdleAuth EXCEPT !.stage = "session", !.sessionRole = role,
                               !.record = record, !.event = event]
  /\ faults = 0

NextAuth ==
  \/ GetSessionResolves
  \/ GetSessionTimesOut
  \/ InitProfileLoaded
  \/ AuthEvent
  \/ ListenerProfileLoaded

SpecAuth == InitAuth /\ [][NextAuth]_vars

\* C26: once the session lookup, the profile lookups and the listener's
\* work have all ended, loading is false.
AuthNeverHangs ==
  (auth.stage = "done" /\ auth.event = "none" /\ auth.listener # "timer") => ~auth.loading


\* ------------------------------------------------------- timer generations
\* C27: a timer callback sends a call only under the generation current when
\* it fires, and a timer is set only under the generation current when it is
\* set: what was created before pauseGame or resumeGame incremented the
\* generation neither calls nor schedules.
StaleCallbacksInert ==
  [][\A c \in Clients :
       /\ \A k \in calls'[c] \ calls[c] :
            k.phase = "sent" => k.gen = timerGenerationRef[c]
       /\ \A t \in timers'[c] \ timers[c] :
            t.ref => t.gen = timerGenerationRef'[c]]_vars

\* The result of a call sent under an earlier generation has arrived while
\* the tab is active again and not paused: only the generation stops its
\* continuation.
StaleContinuationPending ==
  \E c \in mounted : \E k \in calls[c] :
    /\ k.phase = "ok" /\ k.gen < timerGenerationRef[c]
    /\ gameActiveRef[c] /\ ~pauseRequestedRef[c]


\* -------------------------------------------------- FirebaseCore.withGameLock
NotLocks == <<storeVars, hcVars, mounted, script, svcVars, ghVars, resetRun, subscription,
             dashboard, lobby, txn, resume, shuffle, audio, auth, playVars, faults>>

\* The callers awaiting the promise of caller c, in the order they began to wait.
WaitersOn(c) ==
  LET AwaitsC(w) == locks.callers[w].awaits = c
  IN SelectSeq(locks.waiting, AwaitsC)

\* withGameLock(gameId, operation) up to its first await: with a promise
\* stored under the key the caller awaits it; otherwise the operation is
\* started and its promise stored.
WithGameLock(c, key) ==
  /\ locks.callers[c].stage = "idle"
  /\ LET held == locks.activeLocks[key]
     IN locks' =
          IF held # NoCaller
          THEN [locks EXCEPT !.callers[c] = [stage |-> "waiting", key |-> key, awaits |-> held],
                             !.waiting = Append(@, c)]
          ELSE [locks EXCEPT !.callers[c] = [stage |-> "running", key |-> key,
                                             awaits |-> NoCaller],
                             !.activeLocks[key] = c]
  /\ UNCHANGED NotLocks

\* The operation of caller c settles: its finally deletes the key, its
\* promise settles, and each caller awaiting the promise goes on in turn.
\* After a resolved promise the waiter starts its operation and stores its own
\* promise; after a rejected one the await throws and the waiter's call fails.
OperationSettles(c, ok) ==
  /\ locks.callers[c].stage = "running"
  /\ LET key == locks.callers[c].key
         woken == WaitersOn(c)
         after == IF ok THEN "running" ELSE "rejected"
     IN locks' =
          [activeLocks |-> [locks.activeLocks EXCEPT ![key] =
                              IF ok /\ woken # <<>> THEN woken[Len(woken)] ELSE NoCaller],
           callers |-> [w \in Callers |->
                          IF w = c
                          THEN [locks.callers[c] EXCEPT !.stage = IF ok THEN "done" ELSE "failed"]
                          ELSE IF w \in Range(woken)
                          THEN [locks.callers[w] EXCEPT !.stage = after, !.awaits = NoCaller]
                          ELSE locks.callers[w]],
           waiting |-> LET Others(w) == locks.callers[w].awaits # c
                       IN SelectSeq(locks.waiting, Others)]
  /\ UNCHANGED NotLocks

InitLocks ==
  /\ CreatedGame /\ IdleHC /\ IdleSvc /\ IdleGameHost /\ IdleDashboard
  /\ shuffle = IdleShuffle /\ audio = IdleAudio /\ auth = IdleAuth /\ locks = IdleLocks
  /\ IdlePlay
  /\ faults = 0

NextLocks ==
  \/ \E c \in Callers, key \in LockKeys : WithGameLock(c, key)
  \/ \E c \in Callers, ok \in BOOLEAN : OperationSettles(c, ok)

SpecLocks == InitLocks /\ [][NextLocks]_vars

\* The operations running under a key.
Running(key) ==
  {c \in Callers : locks.callers[c].stage = "running" /\ locks.callers[c].key = key}

\* C28: at most one operation per game runs at a time, and a caller that
\* waits starts its operation only once the one it waited for has finished.
OneOperationPerGame ==
  /\ \A key \in LockKeys : Cardinality(Running(key)) <= 1
  /\ \A c \in Callers : locks.callers[c].stage = "waiting"
                          => locks.callers[locks.callers[c].awaits].stage = "running"


\* ------------------------------------------------------- manual pause lock
\* C29: when the sync effect of a tab runs while pauseRequested is set on a
\* snapshot with isActive true and gameOver false, gameActiveRef is left as it
\* is (a flag that is false stays false) and the pause request stays; when it runs on a snapshot with gameOver
\* true, the pause request is cleared and gameActiveRef is false.
PauseLockHolds ==
  [][\A c \in Clients :
       (view'[c] # view[c] \/ (effectDue[c] /\ ~effectDue'[c]))
         => /\ (pauseRequestedRef[c] /\ view'[c].isActive /\ ~view'[c].gameOver)
                 => /\ gameActiveRef'[c] = gameActiveRef[c]
                    /\ pauseRequestedRef'[c]
            /\ view'[c].gameOver => ~pauseRequestedRef'[c] /\ ~gameActiveRef'[c]]_vars

\* tabA has paused and keeps its lock after the snapshot of tabB's resume.
PauseLockKept ==
  /\ pauseRequestedRef["tabA"] /\ ~isProcessing["tabA"] /\ ~effectDue["tabA"]
  /\ timerGenerationRef["tabB"] > 0
  /\ gs.isActive /\ ~gs.gameOver /\ view["tabA"] = StoredFlags
  /\ ~gameActiveRef["tabA"]


\* ----------------------------------------------------------- pause rollback
\* The timers and calls of tab c that act under generation g.
LiveLoops(tm, ks, g) ==
  Cardinality({t \in tm : t.gen = g}) + Cardinality({k \in ks : k.gen = g})

\* C30: when the updateGameState of a pause fails, the pause lock of the tab
\* is cleared and pauseGame rejects; if the game data the tab held when pause
\* was pressed was active and not over, gameActiveRef is set and exactly one
\* loop runs under the current generation; otherwise the timers and
\* gameActiveRef are left as they are.
PauseRollback ==
  [][\A op \in ops :
       (op.kind = "pause" /\ op \notin ops' /\ faults' # faults)
         => /\ ~pauseRequestedRef'[op.c]
            /\ thrown'[op.c] = "pause"
            /\ ~isProcessing'[op.c]
            /\ IF op.seen.isActive /\ ~op.seen.gameOver
               THEN /\ gameActiveRef'[op.c]
                    /\ LiveLoops(timers'[op.c], calls'[op.c], timerGenerationRef'[op.c]) = 1
               ELSE /\ timers'[op.c] = timers[op.c]
                    /\ gameActiveRef'[op.c] = gameActiveRef[op.c]]_vars

\* The pause of a tab has failed and its loop has been restarted.
PauseRolledBack ==
  \E c \in mounted :
    /\ thrown[c] = "pause" /\ ~pauseRequestedRef[c] /\ ~isProcessing[c]
    /\ gameActiveRef[c] /\ timerGenerationRef[c] > 0
    /\ timers[c] = {[gen |-> timerGenerationRef[c], ref |-> TRUE]}


\* ------------------------------------------- GameHost winner notifications
NotToasts == <<storeVars, hcVars, mounted, script, svcVars, ghVars, resetRun, subscription,
              dashboard, lobby, txn, resume, shuffle, audio, auth, locks,
              speech, tickets, feed, ui, faults>>

\* autoResumeFromGame / createNewGame: announcedWinners is reset and the
\* game is subscribed with a callback that holds the announcedWinners of the
\* render that made it.
SubscribeToGame ==
  /\ toasts.games < MaxGames
  /\ toasts' = [toasts EXCEPT !.subscribed = TRUE, !.games = @ + 1,
                              !.lastWinnerAt = NoWinner, !.delivered = TRUE,
                              !.closure = toasts.announcedWinners,
                              !.announcedWinners = {}]
  /\ UNCHANGED NotToasts

\* The prize validation stores a winner announcement with a new lastWinnerAt.
WinnerStored ==
  /\ toasts.subscribed
  /\ toasts.clock < MaxWinners
  /\ toasts' = [toasts EXCEPT !.clock = @ + 1, !.lastWinnerAt = toasts.clock + 1,
                              !.delivered = FALSE]
  /\ UNCHANGED NotToasts

\* Anything else of the game changes (a number is called, the game pauses):
\* the announcement fields stay as stored.
GameChanged ==
  /\ toasts.subscribed
  /\ toasts.delivered
  /\ toasts' = [toasts EXCEPT !.delivered = FALSE]
  /\ UNCHANGED NotToasts

\* The subscription callback gets the stored game.
GameSnapshot ==
  /\ toasts.subscribed
  /\ ~toasts.delivered
  /\ LET at == toasts.lastWinnerAt
         new == at # NoWinner /\ at \notin toasts.closure
     IN /\ new => toasts.shown[at] < MaxToasts
        /\ toasts' = IF new
                     THEN [toasts EXCEPT !.delivered = TRUE,
                                         !.announcedWinners = @ \cup {at},
                                         !.shown[at] = @ + 1]
                     ELSE [toasts EXCEPT !.delivered = TRUE]
  /\ UNCHANGED NotToasts

InitToasts ==
  /\ CreatedGame /\ IdleHC /\ IdleSvc /\ IdleGameHost /\ IdleDashboard
  /\ shuffle = IdleShuffle /\ audio = IdleAudio /\ auth = IdleAuth /\ locks = IdleLocks
  /\ IdlePlay
  /\ faults = 0

NextToasts ==
  \/ SubscribeToGame
  \/ WinnerStored
  \/ GameChanged
  \/ GameSnapshot

SpecToasts == InitToasts /\ [][NextToasts]_vars

\* C31: a winner announcement, identified by its lastWinnerAt, is shown to
\* the host at most once, however many snapshots carry it.
WinnerNotifiedOnce == \A t \in 1..MaxWinners : toasts.shown[t] <= 1


\* ------------------------------------------------ AudioManager audio queue
NotSpeech == <<storeVars, hcVars, mounted, script, svcVars, ghVars, resetRun, subscription,
              dashboard, lobby, txn, resume, shuffle, audio, auth, locks,
              toasts, tickets, feed, ui, faults>>

\* The ways the end of an utterance is noticed.
CompletionEvents == {"onend", "onerror", "poll", "timeout"}

\* A markComplete that takes no completion for a duplicate or a stale one.
IgnoredCompletionNever(local, ref, current, item) == FALSE

\* markComplete: the item's own flag or the shared ref says it is done, or
\* the item is not the current audio.
IgnoredCompletion(local, ref, current, item) == local \/ ref \/ current # item

\* processNext: the queue is done, or its first item starts to be spoken
\* with the four completion methods armed.
ProcessNext(s) ==
  IF s.queue = <<>>
  THEN [s EXCEPT !.isProcessingQueue = FALSE]
  ELSE LET item == Head(s.queue)
       IN [s EXCEPT !.queue = Tail(@), !.currentAudioId = item,
                    !.isAudioCompleted = FALSE, !.early = TRUE,
                    !.events[item] = CompletionEvents]

\* processQueue.
ProcessQueue(s) ==
  IF s.isProcessingQueue \/ s.queue = <<>>
  THEN s
  ELSE ProcessNext([s EXCEPT !.isProcessingQueue = TRUE])

\* markComplete of item: duplicates and stale completions are ignored, a
\* completion before the minimum time is tried again later, otherwise the
\* callback and the next item are scheduled.  The safety timeout is cleared;
\* a poll still pending is dropped with it, since it returns at its first
\* test once the item's flag is set.
MarkComplete(s, item) ==
  IF IgnoredCompletion(s.audioCompleted[item], s.isAudioCompleted, s.currentAudioId, item)
  THEN s
  ELSE IF s.early THEN [s EXCEPT !.events[item] = @ \cup {"retry"}]
  ELSE [s EXCEPT !.audioCompleted[item] = TRUE, !.isAudioCompleted = TRUE,
                 !.events[item] = @ \ {"timeout", "poll"},
                 !.currentAudioId = NoItem,
                 !.callbackTimers = @ \cup {item},
                 !.nextTimers = @ + 1]

\* addToQueue: without audio the callback is scheduled at once; a prize item
\* blocks the number announcements until its callback; numbers go to the
\* front of the queue, prizes to its end.
AddToQueue(s, kind) ==
  LET item == s.handed + 1
      s1 == [s EXCEPT !.handed = item]
  IN IF ~s.available
     THEN [s1 EXCEPT !.callbackTimers = @ \cup {item}]
     ELSE LET s2 == IF kind = "prize"
                    THEN [s1 EXCEPT !.isBlockedForAnnouncement = TRUE,
                                    !.wrapped = @ \cup {item}]
                    ELSE s1
              s3 == [s2 EXCEPT !.queue = IF kind = "number" THEN <<item>> \o @
                                         ELSE Append(@, item)]
          IN ProcessQueue(s3)

\* An effect of the component hands an item to addToQueue; the prize effect
\* has noted the prize as announced.
Announce(kind) ==
  /\ speech.handed < MaxItems
  /\ speech' = AddToQueue([speech EXCEPT !.announcedPrizes = @ \/ kind = "prize"], kind)
  /\ UNCHANGED NotSpeech

\* The user's first click or key press enables audio.
EnableAudio ==
  /\ ~speech.available
  /\ speech' = [speech EXCEPT !.available = TRUE]
  /\ UNCHANGED NotSpeech

\* The minimum speaking time of the current item has passed.
MinTimePasses ==
  /\ speech.currentAudioId # NoItem /\ speech.early
  /\ speech' = [speech EXCEPT !.early = FALSE]
  /\ UNCHANGED NotSpeech

\* One of the armed completion methods of an item fires.  The poll and the
\* safety timeout look at the item's flag and the current audio id first; the
\* delayed retry fires once the minimum time has passed.
CompletionFires(item, e) ==
  /\ e \in speech.events[item]
  /\ e = "retry" => ~speech.early \/ speech.currentAudioId # item
  /\ LET s1 == [speech EXCEPT !.events[item] = @ \ {e}]
         guarded == e \in {"poll", "timeout"}
         skip == guarded /\ (s1.audioCompleted[item] \/ s1.currentAudioId # item)
     IN speech' = IF skip THEN s1 ELSE MarkComplete(s1, item)
  /\ UNCHANGED NotSpeech

\* The 100 ms timer of a callback: the callback runs; the wrapper of a prize
\* item releases the block first.
CallbackTimer(item) ==
  /\ item \in speech.callbackTimers
  /\ speech.ran[item] < 2
  /\ speech' = [speech EXCEPT !.callbackTimers = @ \ {item},
                              !.ran[item] = @ + 1,
                              !.isBlockedForAnnouncement =
                                 IF item \in speech.wrapped THEN FALSE ELSE @]
  /\ UNCHANGED NotSpeech

\* The 200 ms timer of markComplete: processNext.
NextTimer ==
  /\ speech.nextTimers > 0
  /\ speech' = ProcessNext([speech EXCEPT !.nextTimers = @ - 1])
  /\ UNCHANGED NotSpeech

InitSpeech ==
  /\ CreatedGame /\ IdleHC /\ IdleSvc /\ IdleGameHost /\ IdleDashboard
  /\ shuffle = IdleShuffle /\ audio = IdleAudio /\ auth = IdleAuth /\ locks = IdleLocks
  /\ toasts = IdleToasts /\ tickets = IdleTickets /\ feed = IdleFeed /\ ui = IdleUi
  /\ \E available \in BOOLEAN : speech = [IdleSpeech EXCEPT !.available = available]
  /\ faults = 0

NextSpeech ==
  \/ \E kind \in {"number", "prize"} : Announce(kind)
  \/ EnableAudio
  \/ MinTimePasses
  \/ \E item \in Items, e \in CompletionEvents \cup {"retry"} : CompletionFires(item, e)
  \/ \E item \in Items : CallbackTimer(item)
  \/ NextTimer

SpecSpeech == InitSpeech /\ [][NextSpeech]_vars

\* Nothing is queued, spoken or scheduled.
SpeechQuiet ==
  /\ speech.queue = <<>> /\ speech.currentAudioId = NoItem
  /\ speech.callbackTimers = {} /\ speech.nextTimers = 0

NumberEffect ==
  /\ speech.handed < MaxItems
  /\ ~speech.isBlockedForAnnouncement
  /\ speech' = AddToQueue([speech EXCEPT !.lastCalledNumber = speech.handed + 1], "number")
  /\ UNCHANGED NotSpeech

\* The reset effect: no prize is won any more and one had been announced.
\* For a game that is not over the announced prizes, the last number and the
\* queue are cleared and speech is cancelled, which leaves the end of the
\* utterance to the methods still armed; in every case the safety timeout is
\* cleared and the queue is marked as not being processed.
ResetAudioState(over) ==
  /\ speech.announcedPrizes
  /\ LET cleared == IF over THEN speech
                    ELSE [speech EXCEPT !.announcedPrizes = FALSE,
                                        !.lastCalledNumber = NoItem, !.queue = <<>>]
         current == speech.currentAudioId
     IN speech' = [cleared EXCEPT
                     !.isProcessingQueue = FALSE,
                     !.events = [n \in Items |->
                                   IF n = current THEN @[n] \ {"timeout"} ELSE @[n]]]
  /\ UNCHANGED NotSpeech

NextSpeechReset ==
  \/ Announce("prize")
  \/ NumberEffect
  \/ \E over \in BOOLEAN : ResetAudioState(over)
  \/ EnableAudio
  \/ MinTimePasses
  \/ \E item \in Items, e \in CompletionEvents \cup {"retry"} : CompletionFires(item, e)
  \/ \E item \in Items : CallbackTimer(item)
  \/ NextTimer

SpecSpeechReset == InitSpeech /\ [][NextSpeechReset]_vars

\* C38: a block set by a prize announcement does not outlast the audio:
\* once nothing is queued, spoken or scheduled the numbers are let through.
BlockReleased == SpeechQuiet => ~speech.isBlockedForAnnouncement


\* ------------------------------------------------------------ one call loop
\* C33: a tab never has more than one live call loop: at most one pending
\* timer or awaited call acts under its current generation.
OneLiveLoop ==
  \A c \in Clients : LiveLoops(timers[c], calls[c], timerGenerationRef[c]) <= 1


\* ------------------------------------------------- host actions in turn
HostActions == {"start", "pause", "resume", "end"}

\* The host actions of tab c whose updateGameState has not settled.
PendingActions(c) == {op \in ops : op.c = c /\ op.kind \in HostActions}

\* C34: a tab has at most one host action pending, isProcessing is true
\* exactly while it is, and a press is taken only when none is pending.
HostActionsInTurn ==
  \A c \in Clients :
    /\ Cardinality(PendingActions(c)) <= 1
    /\ isProcessing[c] <=> PendingActions(c) # {}

\* Every press of the run was taken in turn and the last action failed.
ActionSettledBothWays ==
  \E c \in mounted :
    /\ thrown[c] = "resume" /\ c = "tabA"
    /\ ~isProcessing[c] /\ script[c] = <<>> /\ PendingActions(c) = {}


\* ------------------------------------------- supabase-game ticket updates
NotTickets == <<storeVars, hcVars, mounted, script, svcVars, ghVars, resetRun,
                subscription, dashboard, lobby, txn, resume, shuffle, audio, auth, locks,
                toasts, speech, feed, ui, faults>>

Players == {"asha", "ben"}

\* How many times n occurs in the sequence s.
Occurrences(s, n) == Cardinality({i \in 1..Len(s) : s[i] = n})

\* bookTicket: the update of the ticket row is sent.
bookTicket(playerName) ==
  /\ tickets.booked < MaxBookings
  /\ playerName \notin tickets.bookings
  /\ tickets' = [tickets EXCEPT !.bookings = @ \cup {playerName}, !.booked = @ + 1]
  /\ UNCHANGED NotTickets

\* The row is updated where id = ticketId, whatever is_booked holds.
BookingStored(playerName) ==
  /\ playerName \in tickets.bookings
  /\ tickets' = [tickets EXCEPT !.bookings = @ \ {playerName},
                                !.isBooked = TRUE, !.playerName = playerName]
  /\ UNCHANGED NotTickets

\* The update returned an error and bookTicket threw.
BookingFailed(playerName) ==
  /\ playerName \in tickets.bookings
  /\ tickets' = [tickets EXCEPT !.bookings = @ \ {playerName}]
  /\ UNCHANGED NotTickets

\* markTicketNumber: the select of marked_numbers is sent.
markTicketNumber(number) ==
  /\ tickets.marks < MaxMarks
  /\ tickets' = [tickets EXCEPT
       !.marks = @ + 1,
       !.marking = @ \cup {[id |-> tickets.marks + 1, number |-> number,
                            phase |-> "select", markedNumbers |-> <<>>]}]
  /\ UNCHANGED NotTickets

\* The select returned: a number already in the list ends the call, any other
\* is pushed on the fetched list and the update is sent.
MarkFetched(m) ==
  /\ m \in tickets.marking /\ m.phase = "select"
  /\ tickets' =
       IF Occurrences(tickets.markedNumbers, m.number) > 0
       THEN [tickets EXCEPT !.marking = @ \ {m}, !.marked = @ \cup {m.number}]
       ELSE [tickets EXCEPT !.marking = (@ \ {m}) \cup
               {[m EXCEPT !.phase = "update",
                          !.markedNumbers = Append(tickets.markedNumbers, m.number)]}]
  /\ UNCHANGED NotTickets

\* The update wrote the list the call had built.
MarkStored(m) ==
  /\ m \in tickets.marking /\ m.phase = "update"
  /\ tickets' = [tickets EXCEPT !.marking = @ \ {m}, !.marked = @ \cup {m.number},
                                !.markedNumbers = m.markedNumbers]
  /\ UNCHANGED NotTickets

\* The select or the update returned an error and markTicketNumber threw.
MarkFailed(m) ==
  /\ m \in tickets.marking
  /\ tickets' = [tickets EXCEPT !.marking = @ \ {m}]
  /\ UNCHANGED NotTickets

InitTickets ==
  /\ CreatedGame /\ IdleHC /\ IdleSvc /\ IdleGameHost /\ IdleDashboard
  /\ shuffle = IdleShuffle /\ audio = IdleAudio /\ auth = IdleAuth /\ locks = IdleLocks
  /\ IdlePlay
  /\ faults = 0

NextTickets ==
  \/ \E playerName \in Players : bookTicket(playerName)
  \/ \E playerName \in Players : BookingStored(playerName)
  \/ \E playerName \in Players : BookingFailed(playerName)
  \/ \E number \in Numbers : markTicketNumber(number)
  \/ \E m \in tickets.marking : MarkFetched(m)
  \/ \E m \in tickets.marking : MarkStored(m)
  \/ \E m \in tickets.marking : MarkFailed(m)

SpecTickets == InitTickets /\ [][NextTickets]_vars

\* C35: once a ticket is booked, no later bookTicket changes the player
\* recorded on it.
BookingKept == [][tickets.isBooked => tickets'.playerName = tickets.playerName]_vars

\* C36: when no markTicketNumber call is under way, every number whose call
\* returned without error is in marked_numbers, once.
MarksKept ==
  tickets.marking = {} =>
    \A number \in tickets.marked : Occurrences(tickets.markedNumbers, number) = 1


\* -------------------------------------------------- useSupabaseSubscription
NotFeed == <<storeVars, hcVars, mounted, script, svcVars, ghVars, resetRun,
             subscription, dashboard, lobby, txn, resume, shuffle, audio, auth, locks,
             toasts, speech, tickets, ui, faults>>

Filters == 1..MaxFilters

\* fetchData up to its await: loading is set and the query for the filter of
\* the render that made the callback is sent.
FetchData(f, filter) ==
  [f EXCEPT !.loading = TRUE, !.error = FALSE,
            !.fetched = @ + 1,
            !.fetches = @ \cup {[id |-> f.fetched + 1, filter |-> filter]}]

\* The hook is rendered with another game id: the cleanup of the last effect
\* run, if that run had subscribed, then the effect for the new filter.
FilterChanges(filter) ==
  /\ filter # feed.filter
  /\ feed.changes < MaxChanges
  /\ filter # NoFilter => feed.fetched < MaxFetches
  /\ LET cleaned == IF feed.enabled
                    THEN [feed EXCEPT !.isMountedRef = FALSE, !.channel = NoFilter]
                    ELSE feed
         rendered == [cleaned EXCEPT !.filter = filter, !.enabled = filter # NoFilter,
                                     !.changes = @ + 1]
     IN feed' = IF filter = NoFilter
                THEN [rendered EXCEPT !.data = NoFilter, !.loading = FALSE, !.error = FALSE]
                ELSE [FetchData(rendered, filter) EXCEPT !.channel = filter]
  /\ UNCHANGED NotFeed

\* A query returns, with rows or with an error.
FetchReturns(q, ok) ==
  /\ q \in feed.fetches
  /\ feed' = IF ~feed.isMountedRef
             THEN [feed EXCEPT !.fetches = @ \ {q}]
             ELSE IF ok
             THEN [feed EXCEPT !.fetches = @ \ {q}, !.data = q.filter,
                               !.loading = FALSE, !.error = FALSE]
             ELSE [feed EXCEPT !.fetches = @ \ {q}, !.loading = FALSE, !.error = TRUE]
  /\ UNCHANGED NotFeed

\* A row of the subscribed table changed: the channel's callback fetches again.
RowChanged ==
  /\ feed.channel # NoFilter
  /\ feed.fetched < MaxFetches
  /\ feed' = FetchData(feed, feed.channel)
  /\ UNCHANGED NotFeed

\* The hook is mounted with or without a game id and its effect has run.
InitFeed ==
  /\ CreatedGame /\ IdleHC /\ IdleSvc /\ IdleGameHost /\ IdleDashboard
  /\ shuffle = IdleShuffle /\ audio = IdleAudio /\ auth = IdleAuth /\ locks = IdleLocks
  /\ toasts = IdleToasts /\ speech = IdleSpeech /\ tickets = IdleTickets /\ ui = IdleUi
  /\ \E filter \in Filters \cup {NoFilter} :
       feed = IF filter = NoFilter
              THEN IdleFeed
              ELSE [FetchData([IdleFeed EXCEPT !.enabled = TRUE, !.filter = filter], filter)
                      EXCEPT !.channel = filter]
  /\ faults = 0

NextFeed ==
  \/ \E filter \in Filters \cup {NoFilter} : FilterChanges(filter)
  \/ \E q \in feed.fetches : \E ok \in BOOLEAN : FetchReturns(q, ok)
  \/ RowChanged

SpecFeed == InitFeed /\ [][NextFeed]_vars

\* C37: once every query of an enabled hook has returned, loading is false
\* and the hook holds the rows of its current filter or an error.
FeedSettles ==
  (feed.enabled /\ feed.fetches = {}) =>
    /\ ~feed.loading
    /\ feed.error \/ feed.data = feed.filter


\* ------------------------------------------------- GameHost view override
NotUi == <<storeVars, hcVars, mounted, script, svcVars, ghVars, resetRun,
           subscription, dashboard, lobby, txn, resume, shuffle, audio, auth, locks,
           toasts, speech, tickets, feed, faults>>

GameIds == 1..MaxGames

\* setUIState(to), with the reason noted beside the state it replaces.
SetUIState(u, to, cause) ==
  [u EXCEPT !.uiState = to,
            !.moves = IF u.uiState = to THEN @
                      ELSE @ \cup {[from |-> u.uiState, to |-> to, cause |-> cause]}]

\* The game completion effect, run after a render in which gameData, uiState
\* or cachedWinnerData changed.
CompletionEffect(u) ==
  IF u.gameData # NoGameData /\ u.gameOver /\ u.uiState = "calculated"
  THEN SetUIState([u EXCEPT !.cachedWinnerData = u.gameData], "winners", "gameOver")
  ELSE IF u.gameData = NoGameData /\ u.uiState = "winners"
          /\ u.cachedWinnerData # NoGameData
  THEN SetUIState(u, "setup", "deleted")
  ELSE u

\* getCurrentView.
GetCurrentView(u) ==
  IF u.uiState = "winners" THEN "winners"
  ELSE IF u.uiState = "setup" THEN "setup"
  ELSE IF u.gameData = NoGameData THEN "create"
  ELSE "live"

\* The subscription delivers other game data: no game, or a game that is or
\* is not over.
GameDataChanges(gameId, over) ==
  /\ ui.snapshots < MaxSnapshots
  /\ gameId = NoGameData => ~over
  /\ <<gameId, over>> # <<ui.gameData, ui.gameOver>>
  /\ ui' = CompletionEffect([ui EXCEPT !.gameData = gameId, !.gameOver = over,
                                       !.snapshots = @ + 1])
  /\ UNCHANGED NotUi

\* handleCreateNewGameFromWinners: the button of the winner display, and the
\* host's answer to the confirm dialog.
handleCreateNewGameFromWinners(confirmed) ==
  /\ GetCurrentView(ui) = "winners" /\ ui.cachedWinnerData # NoGameData
  /\ confirmed
  /\ ui' = CompletionEffect(SetUIState(ui, "setup", "confirmed"))
  /\ UNCHANGED NotUi

\* GameHost.createNewGame up to its first await: the finished game held in
\* cachedWinnerData is deleted first.
HostCreatesGame ==
  /\ GetCurrentView(ui) \in {"create", "setup"}
  /\ ui.creating = "idle"
  /\ ui.creations < MaxCreations
  /\ ui' = [ui EXCEPT !.creations = @ + 1,
                      !.creating = IF ui.cachedWinnerData # NoGameData
                                   THEN "deleteGame" ELSE "saveHostSettings"]
  /\ UNCHANGED NotUi

\* deleteGame settled, with or without an error: the cache is cleared.
DeleteSettled ==
  /\ ui.creating = "deleteGame"
  /\ ui' = CompletionEffect([ui EXCEPT !.cachedWinnerData = NoGameData,
                                       !.creating = "saveHostSettings"])
  /\ UNCHANGED NotUi

\* saveHostSettings settled.
SaveSettled(ok) ==
  /\ ui.creating = "saveHostSettings"
  /\ ui' = [ui EXCEPT !.creating = IF ok THEN "createGame" ELSE "idle"]
  /\ UNCHANGED NotUi

\* createGame settled: on success uiState is set to calculated.
CreateSettled(ok) ==
  /\ ui.creating = "createGame"
  /\ ui' = IF ok
           THEN CompletionEffect(SetUIState([ui EXCEPT !.creating = "idle"],
                                            "calculated", "created"))
           ELSE [ui EXCEPT !.creating = "idle"]
  /\ UNCHANGED NotUi

\* GameHost is mounted before the game data has arrived.
InitUi ==
  /\ CreatedGame /\ IdleHC /\ IdleSvc /\ IdleGameHost /\ IdleDashboard
  /\ shuffle = IdleShuffle /\ audio = IdleAudio /\ auth = IdleAuth /\ locks = IdleLocks
  /\ IdlePlay
  /\ faults = 0

NextUi ==
  \/ \E gameId \in GameIds \cup {NoGameData}, over \in BOOLEAN : GameDataChanges(gameId, over)
  \/ \E confirmed \in BOOLEAN : handleCreateNewGameFromWinners(confirmed)
  \/ HostCreatesGame
  \/ DeleteSettled
  \/ \E ok \in BOOLEAN : SaveSettled(ok)
  \/ \E ok \in BOOLEAN : CreateSettled(ok)

SpecUi == InitUi /\ [][NextUi]_vars

\* The moves of uiState the host view is meant to make.
AllowedMoves ==
  { [from |-> "calculated", to |-> "winners", cause |-> "gameOver"],
    [from |-> "winners", to |-> "setup", cause |-> "confirmed"],
    [from |-> "winners", to |-> "setup", cause |-> "deleted"],
    [from |-> "setup", to |-> "calculated", cause |-> "created"] }

\* C39: uiState has moved only from calculated to winners on a finished
\* game, from winners to setup on the host's confirmation or the deletion of
\* the game, and from setup to calculated on a created game; and in winners
\* there is cached winner data to show.
ViewOverrideMachine ==
  /\ ui.moves \subseteq AllowedMoves
  /\ ui.uiState = "winners" => ui.cachedWinnerData # NoGameData

====
